---- MODULE Spec2Model ----
(***************************************************************************)
(* A model of the transaction-scheduling core:                             *)
(*   - ThreadSet and ThreadAwareAccountLocks                               *)
(*     (core/src/banking_stage/thread_aware_account_locks.rs),             *)
(*   - CentralNonConflictingScheduler and its TransactionQueue             *)
(*     (core/src/transaction_scheduler/central_nonconflicting_scheduler.rs)*)
(* Every subsystem has its own specification over its own variables; the   *)
(* variables of the other subsystems stay at their initial values.         *)
(***************************************************************************)
EXTENDS Integers, Sequences, FiniteSets, TLC

(***************************************************************************)
(* Bounds of the model and constants of the program.                       *)
(***************************************************************************)
\* pub const MAX_THREADS: usize = 64
MAX_THREADS == 64
\* num_threads handed to ThreadAwareAccountLocks::new (1 <= N <= MAX_THREADS)
NumThreads == 2
\* sequential_queue_limit handed to ThreadAwareAccountLocks::new (L >= 1)
SeqLimit == 2
\* read_lock_account has no upper limit on a thread's count: the model stops here
MaxReadCount == 3

\* the account keys the callers use (the tests' pk1 and pk2)
Pubkey == {"pk1", "pk2"}
\* one lock call lists at most as many accounts as there are keys (a key may repeat)
MaxLocks == Cardinality(Pubkey)
\* Option::None for an Option<ThreadId>
None == -1

(***************************************************************************)
(* ThreadSet(u64): the 64-bit word is the set of its one-bits' positions.  *)
(***************************************************************************)
U64Bits == 0..(MAX_THREADS - 1)

SetMin(S) == CHOOSE x \in S : \A y \in S : x <= y

\* 1 << n on a u64; a shift by the full width or more wraps the amount
U64Shl1(n) == {n % MAX_THREADS}

\* x - 1 on a u64 (borrow through the low zero bits; 0 - 1 wraps)
U64Sub1(S) ==
    IF S = {} THEN U64Bits
    ELSE LET k == SetMin(S) IN (S \ {k}) \cup {i \in U64Bits : i < k}

ThreadSet_none == {}

ThreadSet_any(n) == U64Sub1(U64Shl1(n))

ThreadSet_only(thread_id) == U64Shl1(thread_id)

\* count_ones
ThreadSet_num_threads(set) == Cardinality(set)

\* (num_threads == 1).then_some(trailing_zeros)
ThreadSet_only_one_scheduled(set) ==
    IF ThreadSet_num_threads(set) = 1 THEN SetMin(set) ELSE None

ThreadSet_is_empty(set) == set = {}

ThreadSet_contains(set, thread_id) == (set \cap U64Shl1(thread_id)) # {}

ThreadSet_insert(set, thread_id) == set \cup U64Shl1(thread_id)

ThreadSet_remove(set, thread_id) == set \ U64Shl1(thread_id)

\* (0..MAX_THREADS).filter(contains)
ThreadSet_threads_iter(set) == {t \in set : t \in U64Bits}

\* bitand_assign
ThreadSet_bitand(lhs, rhs) == lhs \cap rhs

(***************************************************************************)
(* ThreadAwareAccountLocks.  A table value is                              *)
(*   [write_locks : Pubkey -|-> [lock_thread_id, lock_count],              *)
(*    read_locks  : Pubkey -|-> [thread_set, lock_counts],                 *)
(*    panicked    : BOOLEAN]                                               *)
(* the two HashMaps being functions whose DOMAIN is the set of keys.       *)
(* lock_counts holds the slots of the threads below num_threads; the other *)
(* slots of the [u32; MAX_THREADS] array are never written.                *)
(***************************************************************************)
num_threads == NumThreads

sequential_queue_limit == SeqLimit

ThreadId == 0..(num_threads - 1)

MapInsert(m, k, v) == [x \in DOMAIN m \cup {k} |-> IF x = k THEN v ELSE m[x]]

MapRemove(m, k) == [x \in DOMAIN m \ {k} |-> m[x]]

EmptyMap == [x \in {} |-> 0]

\* ThreadAwareAccountLocks::new
NewLocks == [write_locks |-> EmptyMap, read_locks |-> EmptyMap, panicked |-> FALSE]

\* mutant: the read-only case forgets the sequential limit
read_only_handler_for_read_no_limit(thread_set, counts) ==
    ThreadSet_any(num_threads)

\* the closure handed over by read_schedulable_threads
read_only_handler_for_read(thread_set, counts) ==
    ThreadSet_any(num_threads) \
        {thread_id \in ThreadSet_threads_iter(thread_set) :
            counts[thread_id] = sequential_queue_limit}

\* the closure handed over by write_schedulable_threads
read_only_handler_for_write(thread_set, counts) ==
    LET one == ThreadSet_only_one_scheduled(thread_set)
    IN  IF one # None /\ counts[one] < sequential_queue_limit
        THEN ThreadSet_only(one)
        ELSE ThreadSet_none

schedulable_threads_with_read_only_handler(s, account, for_write) ==
    LET w == account \in DOMAIN s.write_locks
        r == account \in DOMAIN s.read_locks
    IN  CASE ~w /\ ~r -> ThreadSet_any(num_threads)
          [] ~w /\ r ->
                IF for_write
                THEN read_only_handler_for_write(s.read_locks[account].thread_set,
                                                 s.read_locks[account].lock_counts)
                ELSE read_only_handler_for_read(s.read_locks[account].thread_set,
                                                s.read_locks[account].lock_counts)
          [] w /\ ~r ->
                IF s.write_locks[account].lock_count = sequential_queue_limit
                THEN ThreadSet_none
                ELSE ThreadSet_only(s.write_locks[account].lock_thread_id)
          [] w /\ r ->
                IF s.write_locks[account].lock_count
                     + s.read_locks[account].lock_counts[s.write_locks[account].lock_thread_id]
                     = sequential_queue_limit
                THEN ThreadSet_none
                ELSE ThreadSet_only(s.write_locks[account].lock_thread_id)

read_schedulable_threads(s, account) ==
    schedulable_threads_with_read_only_handler(s, account, FALSE)

write_schedulable_threads(s, account) ==
    schedulable_threads_with_read_only_handler(s, account, TRUE)

RECURSIVE AndWriteSchedulable(_, _, _)
AndWriteSchedulable(s, accounts, acc) ==
    IF accounts = <<>> THEN acc
    ELSE AndWriteSchedulable(s, Tail(accounts),
            ThreadSet_bitand(acc, write_schedulable_threads(s, Head(accounts))))

RECURSIVE AndReadSchedulable(_, _, _)
AndReadSchedulable(s, accounts, acc) ==
    IF accounts = <<>> THEN acc
    ELSE AndReadSchedulable(s, Tail(accounts),
            ThreadSet_bitand(acc, read_schedulable_threads(s, Head(accounts))))

\* mutant: the loop over the read accounts is left out
accounts_schedulable_threads_writes_only(s, write_account_locks, read_account_locks) ==
    AndWriteSchedulable(s, write_account_locks, ThreadSet_any(num_threads))

accounts_schedulable_threads(s, write_account_locks, read_account_locks) ==
    AndReadSchedulable(s, read_account_locks,
        AndWriteSchedulable(s, write_account_locks, ThreadSet_any(num_threads)))

\* mutant: no check for outstanding read locks
write_lock_account_no_read_check(s, account, thread_id) ==
    IF account \in DOMAIN s.write_locks
    THEN IF s.write_locks[account].lock_thread_id # thread_id
         THEN [s EXCEPT !.panicked = TRUE]
         ELSE LET s1 == [s EXCEPT !.write_locks[account].lock_count = @ + 1]
              IN  [s1 EXCEPT !.panicked =
                      s1.write_locks[account].lock_count > sequential_queue_limit]
    ELSE [s EXCEPT !.write_locks =
                      MapInsert(@, account, [lock_thread_id |-> thread_id, lock_count |-> 1])]

\* A failed assertion leaves the table as the statements before it made it.
write_lock_account(s, account, thread_id) ==
    IF account \in DOMAIN s.write_locks
    THEN IF s.write_locks[account].lock_thread_id # thread_id
         THEN [s EXCEPT !.panicked = TRUE]
         ELSE LET s1 == [s EXCEPT !.write_locks[account].lock_count = @ + 1]
              IN  IF s1.write_locks[account].lock_count > sequential_queue_limit
                  THEN [s1 EXCEPT !.panicked = TRUE]
                  ELSE [s1 EXCEPT !.panicked =
                            account \in DOMAIN s.read_locks
                            /\ s.read_locks[account].thread_set # ThreadSet_only(thread_id)]
    ELSE [s EXCEPT !.write_locks =
                      MapInsert(@, account, [lock_thread_id |-> thread_id, lock_count |-> 1]),
                   !.panicked =
                      account \in DOMAIN s.read_locks
                      /\ s.read_locks[account].thread_set # ThreadSet_only(thread_id)]

\* mutant: the unlock is accepted from any thread
write_unlock_account_any_thread(s, account, thread_id) ==
    IF account \in DOMAIN s.write_locks
    THEN IF s.write_locks[account].lock_count - 1 = 0
         THEN [s EXCEPT !.write_locks = MapRemove(@, account)]
         ELSE [s EXCEPT !.write_locks[account].lock_count = @ - 1]
    ELSE [s EXCEPT !.panicked = TRUE]

\* mutant: the first unlock removes the entry whatever its depth
write_unlock_account_removes_entry(s, account, thread_id) ==
    IF account \in DOMAIN s.write_locks
    THEN IF s.write_locks[account].lock_thread_id # thread_id
         THEN [s EXCEPT !.panicked = TRUE]
         ELSE [s EXCEPT !.write_locks = MapRemove(@, account)]
    ELSE [s EXCEPT !.panicked = TRUE]

write_unlock_account(s, account, thread_id) ==
    IF account \in DOMAIN s.write_locks
    THEN IF s.write_locks[account].lock_thread_id # thread_id
         THEN [s EXCEPT !.panicked = TRUE]
         ELSE IF s.write_locks[account].lock_count - 1 = 0
              THEN [s EXCEPT !.write_locks = MapRemove(@, account)]
              ELSE [s EXCEPT !.write_locks[account].lock_count = @ - 1]
    ELSE [s EXCEPT !.panicked = TRUE]

\* mutant: no check for a write lock held by another thread
read_lock_account_no_write_check(s, account, thread_id) ==
    IF account \in DOMAIN s.read_locks
    THEN IF ~ThreadSet_contains(s.read_locks[account].thread_set, thread_id)
         THEN [s EXCEPT !.panicked = TRUE]
         ELSE [s EXCEPT !.read_locks[account].lock_counts[thread_id] = @ + 1]
    ELSE [s EXCEPT !.read_locks =
                      MapInsert(@, account,
                          [thread_set |-> ThreadSet_only(thread_id),
                           lock_counts |-> [t \in ThreadId |-> IF t = thread_id THEN 1 ELSE 0]])]

read_lock_account(s, account, thread_id) ==
    LET foreign_write(t) == account \in DOMAIN t.write_locks
                            /\ t.write_locks[account].lock_thread_id # thread_id
    IN  IF account \in DOMAIN s.read_locks
        THEN IF ~ThreadSet_contains(s.read_locks[account].thread_set, thread_id)
             THEN [s EXCEPT !.panicked = TRUE]
             ELSE [s EXCEPT !.read_locks[account].lock_counts[thread_id] = @ + 1,
                            !.panicked = foreign_write(s)]
        ELSE [s EXCEPT !.read_locks =
                          MapInsert(@, account,
                              [thread_set |-> ThreadSet_only(thread_id),
                               lock_counts |-> [t \in ThreadId |-> IF t = thread_id THEN 1 ELSE 0]]),
                       !.panicked = foreign_write(s)]

\* mutant: a count that reaches 0 leaves the thread in the holder set
read_unlock_account_keeps_holder(s, account, thread_id) ==
    IF account \in DOMAIN s.read_locks
    THEN IF ~ThreadSet_contains(s.read_locks[account].thread_set, thread_id)
         THEN [s EXCEPT !.panicked = TRUE]
         ELSE IF s.read_locks[account].lock_counts[thread_id] = 0
              THEN [s EXCEPT !.panicked = TRUE]
              ELSE [s EXCEPT !.read_locks[account].lock_counts[thread_id] = @ - 1]
    ELSE [s EXCEPT !.panicked = TRUE]

read_unlock_account(s, account, thread_id) ==
    IF account \in DOMAIN s.read_locks
    THEN IF ~ThreadSet_contains(s.read_locks[account].thread_set, thread_id)
         THEN [s EXCEPT !.panicked = TRUE]
         ELSE LET s1 == [s EXCEPT !.read_locks[account].lock_counts[thread_id] = @ - 1]
              IN  IF s1.read_locks[account].lock_counts[thread_id] = 0
                  THEN LET s2 == [s1 EXCEPT !.read_locks[account].thread_set =
                                             ThreadSet_remove(@, thread_id)]
                       IN  IF ThreadSet_is_empty(s2.read_locks[account].thread_set)
                           THEN [s2 EXCEPT !.read_locks = MapRemove(@, account)]
                           ELSE s2
                  ELSE s1
    ELSE [s EXCEPT !.panicked = TRUE]

RECURSIVE WriteLockEach(_, _, _)
WriteLockEach(s, accounts, thread_id) ==
    IF accounts = <<>> \/ s.panicked THEN s
    ELSE WriteLockEach(write_lock_account(s, Head(accounts), thread_id),
                       Tail(accounts), thread_id)

RECURSIVE ReadLockEach(_, _, _)
ReadLockEach(s, accounts, thread_id) ==
    IF accounts = <<>> \/ s.panicked THEN s
    ELSE ReadLockEach(read_lock_account(s, Head(accounts), thread_id),
                      Tail(accounts), thread_id)

lock_accounts(s, write_account_locks, read_account_locks, thread_id) ==
    ReadLockEach(WriteLockEach(s, write_account_locks, thread_id),
                 read_account_locks, thread_id)

\* mutant: the selector is asked and the locks are taken whatever the set
try_lock_accounts_unguarded(s, write_account_locks, read_account_locks, selected) ==
    [locks |-> lock_accounts(s, write_account_locks, read_account_locks, selected),
     ret |-> selected, selector_called |-> TRUE,
     offered |-> accounts_schedulable_threads(s, write_account_locks, read_account_locks)]

\* selected: what thread_selector answers when it is asked
try_lock_accounts(s, write_account_locks, read_account_locks, selected) ==
    LET schedulable_threads ==
            accounts_schedulable_threads(s, write_account_locks, read_account_locks)
    IN  IF ~ThreadSet_is_empty(schedulable_threads)
        THEN [locks |-> lock_accounts(s, write_account_locks, read_account_locks, selected),
              ret |-> selected, selector_called |-> TRUE, offered |-> schedulable_threads]
        ELSE [locks |-> s, ret |-> None, selector_called |-> FALSE,
              offered |-> schedulable_threads]


(***************************************************************************)
(* CentralNonConflictingScheduler.  A transaction is identified by its     *)
(* message hash; its priority and account locks are part of the message,   *)
(* so they are functions of the hash.  The transactions the deserializer   *)
(* can deliver are the first NumTx rows of the three tables below.         *)
(***************************************************************************)
NumTx == 3

Capacity == 1

NumWorkers == 2

MaxBatches == 2

MaxArrivals == 3

MaxRecvBatch == 1

MAX_BATCH_SIZE == 128

\* Option<TransactionRef>::None
NoTx == 0

Hash == 1..NumTx

PriorityTable == <<3, 1, 2, 4, 2, 1>>

WritableTable == << <<"pk1">>, <<"pk1">>, <<"pk1">>, <<"pk2">>, <<"pk1">>, <<>> >>

ReadonlyTable == << <<>>, <<>>, <<>>, <<"pk1">>, <<>>, <<"pk1">> >>

priority(h) == PriorityTable[h]

\* get_account_locks_unchecked().writable
writable(h) == WritableTable[h]

\* get_account_locks_unchecked().readonly
readonly(h) == ReadonlyTable[h]

\* MinMaxHeap and BTreeSet order TransactionRef by Ord, that is by priority
\* alone; among equal elements the heap's choice is fixed by tie: "lo" takes
\* the smallest hash and "hi" the largest.
TieBreak == {"lo", "hi"}

PickTied(S, tie) ==
    IF tie = "lo" THEN CHOOSE x \in S : \A y \in S : x <= y
    ELSE CHOOSE x \in S : \A y \in S : x >= y

MaxOf(heap, tie) == PickTied({h \in heap : \A g \in heap : priority(g) <= priority(h)}, tie)

MinOf(heap, tie) == PickTied({h \in heap : \A g \in heap : priority(g) >= priority(h)}, tie)

\* MinMaxHeap::push_pop_min: the element comes back when the heap is empty
\* or the element is below the minimum; otherwise the minimum is exchanged
\* for the element.  With equal priorities either may come back.
push_pop_min(heap, element, tie) ==
    IF heap = {} THEN [heap |-> heap, popped |-> element]
    ELSE LET min == MinOf(heap, tie)
         IN IF priority(element) < priority(min)
               \/ (priority(element) = priority(min) /\ tie = "lo")
            THEN [heap |-> heap, popped |-> element]
            ELSE [heap |-> (heap \ {min}) \cup {element}, popped |-> min]

\* BTreeSet::insert: an element equal (by Ord) to one in the set is not added.
BTreeSet_insert(set, h) ==
    IF \E x \in set : priority(x) = priority(h) THEN set ELSE set \cup {h}

\* BTreeSet::remove: removes the element equal (by Ord) to h, answers whether
\* there was one.
BTreeSet_contains(set, h) == \E x \in set : priority(x) = priority(h)

BTreeSet_remove(set, h) == {x \in set : priority(x) # priority(h)}

(***************************************************************************)
(* AccountLockInner, AccountLock, AccountTransactionQueue.                 *)
(***************************************************************************)
NewAccountLockInner == [count |-> 0, lowest_priority_transaction |-> NoTx]

AccountLockInner_lock_for_transaction(inner, h) ==
    [count |-> inner.count + 1,
     lowest_priority_transaction |->
        IF inner.lowest_priority_transaction = NoTx THEN h
        ELSE IF priority(h) < priority(inner.lowest_priority_transaction) THEN h
        ELSE inner.lowest_priority_transaction]

\* answers [inner, panicked]; panicked is the failed assert!(self.count > 0)
AccountLockInner_unlock_for_transaction(inner, h) ==
    IF inner.count = 0 THEN [inner |-> inner, panicked |-> TRUE]
    ELSE [inner |-> [count |-> inner.count - 1,
                     lowest_priority_transaction |->
                        IF inner.count - 1 = 0 THEN NoTx
                        ELSE inner.lowest_priority_transaction],
          panicked |-> FALSE]

NewAccountLock == [write |-> NewAccountLockInner, read |-> NewAccountLockInner]

lock_on_transaction(lock, h, is_write) ==
    IF is_write
    THEN [lock EXCEPT !.write = AccountLockInner_lock_for_transaction(@, h)]
    ELSE [lock EXCEPT !.read = AccountLockInner_lock_for_transaction(@, h)]

\* answers [lock, panicked]
unlock_on_transaction(lock, h, is_write) ==
    LET r == AccountLockInner_unlock_for_transaction(IF is_write THEN lock.write ELSE lock.read, h)
    IN [lock |-> IF is_write THEN [lock EXCEPT !.write = r.inner]
                 ELSE [lock EXCEPT !.read = r.inner],
        panicked |-> r.panicked]

get_lowest_priority_transaction(lock, is_write) ==
    IF is_write THEN lock.write.lowest_priority_transaction
    ELSE lock.read.lowest_priority_transaction

\* std::cmp::min answers lhs unless rhs is strictly less
option_min(lhs, rhs) ==
    IF lhs # NoTx /\ rhs # NoTx
    THEN (IF priority(rhs) < priority(lhs) THEN rhs ELSE lhs)
    ELSE IF rhs = NoTx THEN lhs
    ELSE rhs

\* #[derive(Default)]
NewAccountTransactionQueue == [reads |-> {}, writes |-> {}, scheduled_lock |-> NewAccountLock]

AccountTransactionQueue_insert_transaction(aq, h, is_write) ==
    IF is_write THEN [aq EXCEPT !.writes = BTreeSet_insert(@, h)]
    ELSE [aq EXCEPT !.reads = BTreeSet_insert(@, h)]

handle_schedule_transaction(aq, h, is_write) ==
    [aq EXCEPT !.scheduled_lock = lock_on_transaction(@, h, is_write)]

\* answers [aq, ret, panicked]
AccountTransactionQueue_remove_transaction(aq, h, is_write) ==
    LET removed == BTreeSet_contains(IF is_write THEN aq.writes ELSE aq.reads, h)
        aq1 == IF is_write THEN [aq EXCEPT !.writes = BTreeSet_remove(@, h)]
               ELSE [aq EXCEPT !.reads = BTreeSet_remove(@, h)]
        u == unlock_on_transaction(aq1.scheduled_lock, h, is_write)
        aq2 == [aq1 EXCEPT !.scheduled_lock = u.lock]
    IN IF ~removed THEN [aq |-> aq1, ret |-> FALSE, panicked |-> TRUE]
       ELSE IF u.panicked THEN [aq |-> aq1, ret |-> FALSE, panicked |-> TRUE]
       ELSE [aq |-> aq2, ret |-> (aq2.writes = {} /\ aq2.reads = {}), panicked |-> FALSE]

\* mutant: a written account contributes its scheduled writers only
get_min_blocking_transaction_writers_only(aq, is_write) ==
    option_min(NoTx, get_lowest_priority_transaction(aq.scheduled_lock, TRUE))

get_min_blocking_transaction(aq, is_write) ==
    LET m1 == IF is_write
              THEN option_min(NoTx, get_lowest_priority_transaction(aq.scheduled_lock, FALSE))
              ELSE NoTx
    IN option_min(m1, get_lowest_priority_transaction(aq.scheduled_lock, TRUE))

(***************************************************************************)
(* TransactionQueue.  A queue value is                                     *)
(*   [pending_transactions : the set of hashes in the MinMaxHeap,          *)
(*    account_queues       : Pubkey -|-> AccountTransactionQueue,          *)
(*    blocked_transactions : Hash -|-> Seq(Hash),                          *)
(*    tracking_map         : Hash -|-> [forwarded : BOOLEAN],              *)
(*    panicked             : BOOLEAN]                                      *)
(* panicked is set by a failed assert!, expect or unwrap; the operation    *)
(* stops there and every later operation leaves the queue alone.           *)
(***************************************************************************)
TransactionQueue_with_capacity ==
    [pending_transactions |-> {}, account_queues |-> EmptyMap,
     blocked_transactions |-> EmptyMap, tracking_map |-> EmptyMap,
     panicked |-> FALSE]

Panic(q) == [q EXCEPT !.panicked = TRUE]

remaining_capacity(q) ==
    IF Capacity >= Cardinality(q.pending_transactions)
    THEN Capacity - Cardinality(q.pending_transactions) ELSE 0

\* one step of the loops of remove_transaction_from_account_queues
RemoveFromAccountQueue(q, account, h, is_write) ==
    IF q.panicked THEN q
    ELSE IF account \notin DOMAIN q.account_queues THEN Panic(q)
    ELSE LET r == AccountTransactionQueue_remove_transaction(q.account_queues[account], h, is_write)
         IN IF r.panicked
            THEN Panic([q EXCEPT !.account_queues = MapInsert(@, account, r.aq)])
            ELSE IF r.ret THEN [q EXCEPT !.account_queues = MapRemove(@, account)]
            ELSE [q EXCEPT !.account_queues = MapInsert(@, account, r.aq)]

RECURSIVE RemoveFromAccountQueues(_, _, _, _)
RemoveFromAccountQueues(q, accounts, h, is_write) ==
    IF accounts = << >> THEN q
    ELSE RemoveFromAccountQueues(RemoveFromAccountQueue(q, Head(accounts), h, is_write),
                                 Tail(accounts), h, is_write)

remove_transaction_from_account_queues(q, h) ==
    RemoveFromAccountQueues(RemoveFromAccountQueues(q, readonly(h), h, FALSE),
                            writable(h), h, TRUE)

RECURSIVE remove_transaction(_, _, _)
RECURSIVE insert_transaction_into_pending_queue(_, _, _)
RECURSIVE UnblockEach(_, _, _)

\* the loop of unblock_transaction
UnblockEach(q, blocked, tie) ==
    IF blocked = << >> THEN q
    ELSE UnblockEach(insert_transaction_into_pending_queue(q, Head(blocked), tie),
                     Tail(blocked), tie)

unblock_transaction(q, h, tie) ==
    IF q.panicked THEN q
    ELSE IF h \in DOMAIN q.blocked_transactions
    THEN UnblockEach([q EXCEPT !.blocked_transactions = MapRemove(@, h)],
                     q.blocked_transactions[h], tie)
    ELSE q

remove_transaction(q, h, tie) ==
    IF q.panicked THEN q
    ELSE IF h \notin DOMAIN q.tracking_map THEN Panic(q)
    ELSE unblock_transaction(
            remove_transaction_from_account_queues(
                [q EXCEPT !.tracking_map = MapRemove(@, h)], h),
            h, tie)

insert_transaction_into_pending_queue(q, h, tie) ==
    IF q.panicked THEN q
    ELSE IF remaining_capacity(q) > 0
    THEN [q EXCEPT !.pending_transactions = @ \cup {h}]
    ELSE LET r == push_pop_min(q.pending_transactions, h, tie)
         IN remove_transaction([q EXCEPT !.pending_transactions = r.heap], r.popped, tie)

\* one step of the loops of insert_transaction_into_account_queues
InsertIntoAccountQueue(q, account, h, is_write) ==
    LET aq == IF account \in DOMAIN q.account_queues THEN q.account_queues[account]
              ELSE NewAccountTransactionQueue
    IN [q EXCEPT !.account_queues =
            MapInsert(@, account, AccountTransactionQueue_insert_transaction(aq, h, is_write))]

RECURSIVE InsertIntoAccountQueues(_, _, _, _)
InsertIntoAccountQueues(q, accounts, h, is_write) ==
    IF accounts = << >> THEN q
    ELSE InsertIntoAccountQueues(InsertIntoAccountQueue(q, Head(accounts), h, is_write),
                                 Tail(accounts), h, is_write)

insert_transaction_into_account_queues(q, h) ==
    InsertIntoAccountQueues(InsertIntoAccountQueues(q, readonly(h), h, FALSE),
                            writable(h), h, TRUE)

\* Lines 571-578: already_exists is insert(..).is_none(), TRUE when the hash
\* was absent, and the code asserts !already_exists.  line_578 is
\* "as_written" for that assertion and "asserts_absence" for the assertion
\* that the hash was absent.
insert_transaction(q, h, line_578, tie) ==
    LET already_exists == h \notin DOMAIN q.tracking_map
        q1 == [q EXCEPT !.tracking_map = MapInsert(@, h, [forwarded |-> FALSE])]
        assertion == IF line_578 = "as_written" THEN ~already_exists ELSE already_exists
    IN IF q.panicked THEN q
       ELSE IF ~assertion THEN Panic(q1)
       ELSE insert_transaction_into_pending_queue(
                insert_transaction_into_account_queues(q1, h), h, tie)

\* the two folds of get_lowest_priority_blocking_transaction; acc is
\* [tx, panicked], panicked being the unwrap of a missing account queue
RECURSIVE FoldMinBlocking(_, _, _, _)
FoldMinBlocking(q, accounts, is_write, acc) ==
    IF accounts = << >> \/ acc.panicked THEN acc
    ELSE IF Head(accounts) \notin DOMAIN q.account_queues
    THEN [tx |-> acc.tx, panicked |-> TRUE]
    ELSE FoldMinBlocking(q, Tail(accounts), is_write,
            [tx |-> option_min(acc.tx,
                        get_min_blocking_transaction(q.account_queues[Head(accounts)], is_write)),
             panicked |-> FALSE])

get_lowest_priority_blocking_transaction(q, h) ==
    FoldMinBlocking(q, writable(h), TRUE,
        FoldMinBlocking(q, readonly(h), FALSE, [tx |-> NoTx, panicked |-> FALSE]))

\* answers [q, ret]
can_schedule_transaction(q, h) ==
    LET b == get_lowest_priority_blocking_transaction(q, h)
    IN IF b.panicked THEN [q |-> Panic(q), ret |-> FALSE]
       ELSE IF b.tx # NoTx
       THEN [q |-> [q EXCEPT !.blocked_transactions =
                        MapInsert(@, b.tx,
                            Append(IF b.tx \in DOMAIN @ THEN @[b.tx] ELSE << >>, h))],
             ret |-> FALSE]
       ELSE [q |-> q, ret |-> TRUE]

\* one step of the loops of lock_for_transaction
LockAccountFor(q, account, h, is_write) ==
    IF q.panicked THEN q
    ELSE IF account \notin DOMAIN q.account_queues THEN Panic(q)
    ELSE [q EXCEPT !.account_queues =
            MapInsert(@, account, handle_schedule_transaction(@[account], h, is_write))]

RECURSIVE LockAccountsFor(_, _, _, _)
LockAccountsFor(q, accounts, h, is_write) ==
    IF accounts = << >> THEN q
    ELSE LockAccountsFor(LockAccountFor(q, Head(accounts), h, is_write),
                         Tail(accounts), h, is_write)

TransactionQueue_lock_for_transaction(q, h) ==
    LockAccountsFor(LockAccountsFor(q, readonly(h), h, FALSE), writable(h), h, TRUE)

RECURSIVE lock_batch(_, _)
lock_batch(q, batch) ==
    IF batch = << >> THEN q
    ELSE lock_batch(TransactionQueue_lock_for_transaction(q, Head(batch)), Tail(batch))

\* the while loop of get_consume_batch; answers [q, batch]
RECURSIVE ConsumeLoop(_, _, _)
ConsumeLoop(q, batch, tie) ==
    IF q.pending_transactions = {} \/ q.panicked THEN [q |-> q, batch |-> batch]
    ELSE LET transaction == MaxOf(q.pending_transactions, tie)
             c == can_schedule_transaction(
                      [q EXCEPT !.pending_transactions = @ \ {transaction}], transaction)
         IN IF c.ret
            THEN IF Len(batch) + 1 = MAX_BATCH_SIZE
                 THEN [q |-> c.q, batch |-> Append(batch, transaction)]
                 ELSE ConsumeLoop(c.q, Append(batch, transaction), tie)
            ELSE ConsumeLoop(c.q, batch, tie)

\* answers [q, batch]; the empty batch is None
get_consume_batch(q, tie) ==
    LET l == ConsumeLoop(q, << >>, tie)
        locked == lock_batch(l.q, l.batch)
    IN IF Len(l.batch) > 0
       THEN [q |-> IF \E i \in 1..Len(l.batch) : l.batch[i] \notin DOMAIN locked.tracking_map
                   THEN Panic(locked) ELSE locked,
             batch |-> l.batch]
       ELSE [q |-> l.q, batch |-> << >>]

\* the while loop of get_forwarding_batch; add_packet is the forwarding
\* filter's answer to every packet of this call
RECURSIVE ForwardLoop(_, _, _, _)
ForwardLoop(q, batch, add_packet, tie) ==
    IF q.pending_transactions = {} \/ q.panicked THEN [q |-> q, batch |-> batch]
    ELSE LET transaction == MaxOf(q.pending_transactions, tie)
             q1 == [q EXCEPT !.pending_transactions = @ \ {transaction}]
         IN IF transaction \notin DOMAIN q.tracking_map THEN [q |-> Panic(q1), batch |-> batch]
            ELSE IF ~add_packet THEN [q |-> Panic(q1), batch |-> batch]
            ELSE IF Len(batch) + 1 = MAX_BATCH_SIZE
            THEN [q |-> q1, batch |-> Append(batch, transaction)]
            ELSE ForwardLoop(q1, Append(batch, transaction), add_packet, tie)

get_forwarding_batch(q, add_packet, tie) == ForwardLoop(q, << >>, add_packet, tie)

complete_or_retry(q, h, retry, tie) ==
    IF q.panicked THEN q
    ELSE IF h \notin DOMAIN q.tracking_map THEN Panic(q)
    ELSE IF retry THEN Panic(q)
    ELSE remove_transaction(q, h, tie)

mark_forwarded(q, h) ==
    IF q.panicked THEN q
    ELSE IF h \notin DOMAIN q.tracking_map THEN Panic(q)
    ELSE [q EXCEPT !.tracking_map = MapInsert(@, h, [forwarded |-> TRUE])]

(***************************************************************************)
(* The scheduler's own operations.  The scheduler's fields other than the  *)
(* queue are passed and answered in records.                               *)
(***************************************************************************)
Decision == {"Consume", "Forward", "ForwardAndHold", "Hold"}

\* ScheduledPacketBatchIdGenerator: ids are monotonic and unique
generate_id(generator) == generator + 1

\* insert_new_packet without the contains_key test of lines 393-400
insert_new_packet_no_dedup(q, packet, line_578, tie) ==
    IF q.panicked THEN q
    ELSE IF packet[2] THEN insert_transaction(q, packet[1], line_578, tie)
    ELSE q

\* the loop of receive_and_buffer_packets over insert_new_packet;
\* a packet is <<hash, sanitized>>, sanitized being whether
\* SanitizedTransactionPriority::try_new answers Some
insert_new_packet(q, packet, line_578, tie) ==
    IF q.panicked THEN q
    ELSE IF packet[1] \in DOMAIN q.tracking_map THEN q
    ELSE IF packet[2] THEN insert_transaction(q, packet[1], line_578, tie)
    ELSE q

RECURSIVE InsertNewPackets(_, _, _, _)
InsertNewPackets(q, packets, line_578, tie) ==
    IF packets = << >> THEN q
    ELSE InsertNewPackets(insert_new_packet(q, Head(packets), line_578, tie),
                          Tail(packets), line_578, tie)

\* the loop of move_held_packets
RECURSIVE move_held_packets(_, _, _)
move_held_packets(q, held, tie) ==
    IF held = << >> THEN q
    ELSE move_held_packets(insert_transaction_into_pending_queue(q, Head(held), tie),
                           Tail(held), tie)

\* answers [q, forward_filter, batch]; the empty batch is None
get_next_transaction_batch(q, held, filter, decision, add_packet, tie) ==
    CASE decision = "Consume" ->
            LET r == get_consume_batch(move_held_packets(q, held, tie), tie)
            IN [q |-> r.q, forward_filter |-> "None", batch |-> r.batch]
      [] decision \in {"Forward", "ForwardAndHold"} ->
            LET r == get_forwarding_batch(q, add_packet, tie)
            IN [q |-> r.q, forward_filter |-> "Some", batch |-> r.batch]
      [] OTHER -> [q |-> q, forward_filter |-> "None", batch |-> << >>]

\* the zip of the batch's packets with the report's retry flags
RECURSIVE CompleteOrRetryEach(_, _, _, _)
CompleteOrRetryEach(q, packets, retryable_packets, tie) ==
    IF packets = << >> \/ retryable_packets = << >> THEN q
    ELSE CompleteOrRetryEach(
            complete_or_retry(q, Head(packets), Head(retryable_packets), tie),
            Tail(packets), Tail(retryable_packets), tie)

RECURSIVE MarkForwardedEach(_, _, _)
MarkForwardedEach(q, packets, retryable_packets) ==
    IF packets = << >> \/ retryable_packets = << >> THEN q
    ELSE MarkForwardedEach(
            IF ~Head(retryable_packets) THEN mark_forwarded(q, Head(packets)) ELSE q,
            Tail(packets), Tail(retryable_packets))

\* answers [q, current_batches]; batches maps an id to its batch
complete_batch(q, batches_map, batches, batch, tie) ==
    IF batch.id \notin DOMAIN batches_map
    THEN [q |-> Panic(q), current_batches |-> batches_map]
    ELSE LET decision == batches_map[batch.id]
             current_batch == batches[batch.id]
             removed == MapRemove(batches_map, batch.id)
         IN CASE decision \in {"Consume", "Forward"} ->
                    [q |-> CompleteOrRetryEach(q, current_batch.deserialized_packets,
                                               batch.retryable_packets, tie),
                     current_batches |-> removed]
              [] decision = "ForwardAndHold" ->
                    [q |-> MarkForwardedEach(q, current_batch.deserialized_packets,
                                             batch.retryable_packets),
                     current_batches |-> removed]
              [] OTHER -> [q |-> Panic(q), current_batches |-> removed]

(***************************************************************************)
(* TransactionPacketContainer.  The MinMaxHeap is the sequence of its      *)
(* elements from the maximum to the minimum (an element can be in it more  *)
(* than once); the two HashMaps are functions of the ids they hold.  A     *)
(* packet is its priority, a SanitizedTransactionTTL its max_age_slot.     *)
(***************************************************************************)
MaxContainerCapacity == 2
MaxTransactionIds == 3
MaxPriority == 2
MaxTakeN == 2

TransactionId == 1..MaxTransactionIds

PacketPriority == 0..MaxPriority

\* the max_age_slot the callers pass
MaxAgeSlot == "Slot::MAX"

TransactionPriorityId_new(p, id) == [priority |-> p, id |-> id]

\* Ord of TransactionPriorityId: by priority, then by id
TransactionPriorityId_gt(a, b) ==
    \/ a.priority > b.priority
    \/ (a.priority = b.priority /\ a.id > b.id)

MinMaxHeap_len(heap) == Len(heap)

\* mutant: the element goes to the end whatever its priority
MinMaxHeap_push_at_end(heap, element) == Append(heap, element)

\* push: the element goes after the elements that are not below it
MinMaxHeap_push(heap, element) ==
    LET above == SelectSeq(heap, LAMBDA e : ~TransactionPriorityId_gt(element, e))
        below == SelectSeq(heap, LAMBDA e : TransactionPriorityId_gt(element, e))
    IN  above \o <<element>> \o below

MinMaxHeap_peek_min(heap) == heap[Len(heap)]

\* push_pop_min answers [heap, popped]: the element itself unless it is
\* above the minimum, which it then replaces
MinMaxHeap_push_pop_min(heap, element) ==
    IF heap # <<>> /\ TransactionPriorityId_gt(element, MinMaxHeap_peek_min(heap))
    THEN [heap |-> MinMaxHeap_push(SubSeq(heap, 1, Len(heap) - 1), element),
          popped |-> MinMaxHeap_peek_min(heap)]
    ELSE [heap |-> heap, popped |-> element]

TransactionPacketContainer_with_capacity(capacity) ==
    [priority_queue |-> <<>>, id_to_transaction_ttl |-> EmptyMap, id_to_packet |-> EmptyMap,
     capacity |-> capacity, panicked |-> FALSE]

TransactionPacketContainer_is_empty(c) == c.priority_queue = <<>>

remaining_queue_capacity(c) == c.capacity - MinMaxHeap_len(c.priority_queue)

\* drain_queue answers [c, drained]
drain_queue(c) == [c |-> [c EXCEPT !.priority_queue = <<>>], drained |-> c.priority_queue]

\* take_top_n answers [c, taken]; consumed is how many items the caller
\* pulls from the iterator returned
take_top_n(c, n, consumed) ==
    LET k == IF consumed < n THEN consumed ELSE n
        m == IF k < Len(c.priority_queue) THEN k ELSE Len(c.priority_queue)
    IN  [c |-> [c EXCEPT !.priority_queue = SubSeq(@, m + 1, Len(@))],
         taken |-> SubSeq(c.priority_queue, 1, m)]

\* mutant: only the packet is removed
remove_by_id_packet_only(c, id) ==
    [c EXCEPT !.id_to_packet = MapRemove(@, id)]

remove_by_id(c, id) ==
    [c EXCEPT !.id_to_packet = MapRemove(@, id),
              !.id_to_transaction_ttl = MapRemove(@, id)]

\* mutant: the evicted id's records stay in the maps
push_id_into_queue_keeps_records(c, priority_id) ==
    IF MinMaxHeap_len(c.priority_queue) = c.capacity
    THEN LET r == MinMaxHeap_push_pop_min(c.priority_queue, priority_id)
         IN  IF r.popped = priority_id
             THEN [c |-> c, ret |-> FALSE]
             ELSE [c |-> [c EXCEPT !.priority_queue = r.heap], ret |-> TRUE]
    ELSE [c |-> [c EXCEPT !.priority_queue = MinMaxHeap_push(@, priority_id)], ret |-> TRUE]

\* mutant: a full heap is pushed into all the same
push_id_into_queue_unbounded(c, priority_id) ==
    [c |-> [c EXCEPT !.priority_queue = MinMaxHeap_push(@, priority_id)], ret |-> TRUE]

\* push_id_into_queue answers [c, ret]
push_id_into_queue(c, priority_id) ==
    IF MinMaxHeap_len(c.priority_queue) = c.capacity
    THEN LET r == MinMaxHeap_push_pop_min(c.priority_queue, priority_id)
         IN  IF r.popped = priority_id
             THEN [c |-> c, ret |-> FALSE]
             ELSE [c |-> remove_by_id([c EXCEPT !.priority_queue = r.heap], r.popped.id),
                   ret |-> TRUE]
    ELSE [c |-> [c EXCEPT !.priority_queue = MinMaxHeap_push(@, priority_id)], ret |-> TRUE]

\* mutant: the records are inserted whether or not the id was pushed
insert_new_transaction_always_records(c, transaction_id, packet, transaction_ttl) ==
    LET r == push_id_into_queue(c, TransactionPriorityId_new(packet, transaction_id))
    IN  [r.c EXCEPT !.id_to_packet = MapInsert(@, transaction_id, packet),
                    !.id_to_transaction_ttl = MapInsert(@, transaction_id, transaction_ttl)]

insert_new_transaction(c, transaction_id, packet, transaction_ttl) ==
    LET r == push_id_into_queue(c, TransactionPriorityId_new(packet, transaction_id))
    IN  IF r.ret
        THEN [r.c EXCEPT !.id_to_packet = MapInsert(@, transaction_id, packet),
                         !.id_to_transaction_ttl = MapInsert(@, transaction_id, transaction_ttl)]
        ELSE r.c

\* the unwrap fails when the packet map has no such id
retry_transaction(c, transaction_id, max_age_slot) ==
    IF transaction_id \notin DOMAIN c.id_to_packet
    THEN [c EXCEPT !.panicked = TRUE]
    ELSE LET r == push_id_into_queue(
                      c, TransactionPriorityId_new(c.id_to_packet[transaction_id],
                                                   transaction_id))
         IN  IF r.ret
             THEN [r.c EXCEPT !.id_to_transaction_ttl =
                                  MapInsert(@, transaction_id, max_age_slot)]
             ELSE r.c

(***************************************************************************)
(* State.  locks and call are the lock table and its last call.  The other *)
(* variables are the scheduler thread, its channels and the workers:       *)
(*   pc                 where the run loop stands: "receive", "completion",*)
(*                      "schedule", or "exited" / "panicked"               *)
(*   scheduled_batches  the Arc<ScheduledPacketBatch> allocations by id,   *)
(*                      with the worker that received the batch (0: none   *)
(*                      yet) and whether that worker finished it           *)
(*   current_batches    id -> the decision recorded with the batch         *)
(*   scheduled_packet_batch_channel, processed_packet_batch_channel        *)
(*                      the unbounded channels' contents                   *)
(*   workers            per worker the id of the batch it executes, 0 when *)
(*                      idle, -1 after a failed send().unwrap()            *)
(*   ingress_connected, handles_alive                                      *)
(*                      whether the deserializer still holds its sender    *)
(*                      and the workers still hold the banking handle      *)
(*   arrivals           packets delivered so far (bounded by MaxArrivals)  *)
(*   line_578           which assertion stands on line 578                 *)
(* thread_set is a run of ThreadAwareAccountLocks::new and of the query of *)
(* its empty table, for one thread count and one build.  container is a    *)
(* TransactionPacketContainer, container_call its last call and answer,    *)
(* and transaction_id_generator the last id given to a new transaction.    *)
(***************************************************************************)
VARIABLES locks, call,
          transaction_queue, held_packets, forward_filter, current_batches,
          batch_id_generator, scheduled_batches,
          scheduled_packet_batch_channel, processed_packet_batch_channel,
          pc, workers, ingress_connected, handles_alive, arrivals, line_578,
          thread_set, container, container_call, transaction_id_generator

lock_vars == <<locks, call>>

sched_vars == <<transaction_queue, held_packets, forward_filter, current_batches,
                batch_id_generator, scheduled_batches,
                scheduled_packet_batch_channel, processed_packet_batch_channel,
                pc, workers, ingress_connected, handles_alive, arrivals, line_578>>

container_vars == <<container, container_call, transaction_id_generator>>

vars == <<lock_vars, sched_vars, thread_set, container_vars>>

\* what the lock table's calls, resp. the scheduler's steps, leave alone
outside_locks == <<sched_vars, thread_set, container_vars>>

outside_scheduler == <<lock_vars, thread_set, container_vars>>

Worker == 1..NumWorkers

\* CentralNonConflictingScheduler::new and spawn
SchedulerNew ==
    /\ transaction_queue = TransactionQueue_with_capacity
    /\ held_packets = << >>
    /\ forward_filter = "None"
    /\ current_batches = EmptyMap
    /\ batch_id_generator = 0
    /\ scheduled_batches = EmptyMap
    /\ scheduled_packet_batch_channel = << >>
    /\ processed_packet_batch_channel = << >>
    /\ pc = "receive"
    /\ workers = [w \in Worker |-> 0]
    /\ ingress_connected = TRUE
    /\ handles_alive = TRUE
    /\ arrivals = 0

\* no run of new under study: the table of num_threads threads is in use
ThreadSetUnused ==
    thread_set = [num_threads |-> num_threads, overflow_checks |-> FALSE,
                  pc |-> "unused", ret |-> {}]

\* TransactionPacketContainer::with_capacity, before any call
ContainerNew(capacity) ==
    /\ container = TransactionPacketContainer_with_capacity(capacity)
    /\ container_call = [op |-> "with_capacity", ret |-> FALSE]
    /\ transaction_id_generator = 0

\* no container under study
ContainerUnused ==
    /\ container = TransactionPacketContainer_with_capacity(0)
    /\ container_call = [op |-> "unused", ret |-> FALSE]
    /\ transaction_id_generator = 0

LocksNew ==
    /\ locks = NewLocks
    /\ call = [op |-> "new", ret |-> None, selector_called |-> FALSE]

(***************************************************************************)
(* The lock table as a state machine: its callers lock through             *)
(* try_lock_accounts or lock_accounts and unlock account by account.       *)
(* call is the last call made and what it answered.                        *)
(***************************************************************************)
SeqsUpTo(S, n) == UNION {[1..k -> S] : k \in 0..n}

\* the (writes, reads) account lists of one call
LockArgs ==
    {a \in SeqsUpTo(Pubkey, MaxLocks) \X SeqsUpTo(Pubkey, MaxLocks) :
        Len(a[1]) + Len(a[2]) <= MaxLocks}

ReadCountsBounded(s) ==
    \A a \in DOMAIN s.read_locks : \A t \in ThreadId :
        s.read_locks[a].lock_counts[t] <= MaxReadCount

LockInit ==
    /\ LocksNew
    /\ SchedulerNew
    /\ ThreadSetUnused
    /\ ContainerUnused
    /\ line_578 = "as_written"

TryLockAccounts ==
    /\ ~locks.panicked
    /\ \E a \in LockArgs, selected \in ThreadId :
         \E r \in {try_lock_accounts(locks, a[1], a[2], selected)} :
            /\ ReadCountsBounded(r.locks)
            /\ locks' = r.locks
            /\ call' = [op |-> "try_lock_accounts", ret |-> r.ret,
                        selector_called |-> r.selector_called]
    /\ UNCHANGED outside_locks

LockAccounts ==
    /\ ~locks.panicked
    /\ \E a \in LockArgs, thread_id \in ThreadId :
         \E s \in {lock_accounts(locks, a[1], a[2], thread_id)} :
            /\ ReadCountsBounded(s)
            /\ locks' = s
            /\ call' = [op |-> "lock_accounts", ret |-> None, selector_called |-> FALSE]
    /\ UNCHANGED outside_locks

WriteUnlockAccount ==
    /\ ~locks.panicked
    /\ \E account \in Pubkey, thread_id \in ThreadId :
         /\ locks' = write_unlock_account(locks, account, thread_id)
         /\ call' = [op |-> "write_unlock_account", ret |-> None, selector_called |-> FALSE]
    /\ UNCHANGED outside_locks

ReadUnlockAccount ==
    /\ ~locks.panicked
    /\ \E account \in Pubkey, thread_id \in ThreadId :
         /\ locks' = read_unlock_account(locks, account, thread_id)
         /\ call' = [op |-> "read_unlock_account", ret |-> None, selector_called |-> FALSE]
    /\ UNCHANGED outside_locks

LockNext ==
    \/ TryLockAccounts
    \/ LockAccounts
    \/ WriteUnlockAccount
    \/ ReadUnlockAccount

LockSpec == LockInit /\ [][LockNext]_vars

(***************************************************************************)
(* The lock table when every lock is taken through try_lock_accounts, with *)
(* duplicate-free and disjoint lists and a selector that answers a member  *)
(* of the set it is offered.                                               *)
(***************************************************************************)
DuplicateFree(seq) == \A i, j \in 1..Len(seq) : seq[i] = seq[j] => i = j

Disjoint(ws, rs) == \A i \in 1..Len(ws), j \in 1..Len(rs) : ws[i] # rs[j]

GatedTryLockAccounts ==
    /\ ~locks.panicked
    /\ \E a \in LockArgs, selected \in ThreadId :
         /\ DuplicateFree(a[1]) /\ DuplicateFree(a[2]) /\ Disjoint(a[1], a[2])
         /\ \E r \in {try_lock_accounts(locks, a[1], a[2], selected)} :
              /\ r.selector_called => selected \in r.offered
              /\ locks' = r.locks
              /\ call' = [op |-> "try_lock_accounts", ret |-> r.ret,
                          selector_called |-> r.selector_called]
    /\ UNCHANGED outside_locks

GatedLockNext ==
    \/ GatedTryLockAccounts
    \/ WriteUnlockAccount
    \/ ReadUnlockAccount

GatedLockSpec == LockInit /\ [][GatedLockNext]_vars

(***************************************************************************)
(* ThreadAwareAccountLocks::new and ThreadSet::any over every thread count *)
(* and both builds.  1 << num_threads is a u64 shift: with overflow checks *)
(* (the default of debug builds) a shift by the width panics, without them *)
(* (the default of release builds) the amount wraps.                       *)
(***************************************************************************)
ThreadCounts == 0..(MAX_THREADS + 1)

\* whether 1 << n on a u64 overflows
U64Shl1Overflows(n) == n >= MAX_THREADS

ThreadSetInit ==
    /\ LocksNew
    /\ SchedulerNew
    /\ line_578 = "as_written"
    /\ ContainerUnused
    /\ \E n \in ThreadCounts, overflow_checks \in BOOLEAN :
          thread_set = [num_threads |-> n, overflow_checks |-> overflow_checks,
                        pc |-> "start", ret |-> {}]

\* ThreadAwareAccountLocks::new: the assertion on num_threads
ThreadAwareAccountLocksNew ==
    /\ thread_set.pc = "start"
    /\ thread_set' =
          [thread_set EXCEPT !.pc =
              IF thread_set.num_threads > 0 /\ thread_set.num_threads <= MAX_THREADS
              THEN "constructed" ELSE "panicked_in_new"]
    /\ UNCHANGED <<lock_vars, sched_vars, container_vars>>

\* the (None, None) arm of schedulable_threads_with_read_only_handler on the
\* new table: ThreadSet::any(self.num_threads)
EmptyTableSchedulableThreads ==
    /\ thread_set.pc = "constructed"
    /\ thread_set' =
          IF thread_set.overflow_checks /\ U64Shl1Overflows(thread_set.num_threads)
          THEN [thread_set EXCEPT !.pc = "panicked_in_any"]
          ELSE [thread_set EXCEPT !.pc = "answered",
                                  !.ret = ThreadSet_any(thread_set.num_threads)]
    /\ UNCHANGED <<lock_vars, sched_vars, container_vars>>

ThreadSetNext ==
    \/ ThreadAwareAccountLocksNew
    \/ EmptyTableSchedulableThreads

ThreadSetSpec == ThreadSetInit /\ [][ThreadSetNext]_vars

(***************************************************************************)
(* The TransactionPacketContainer as a state machine: one action per       *)
(* operation.  A new transaction gets the next id of the generator; a      *)
(* transaction is retried after it was taken from the heap; remove_by_id   *)
(* takes any id.                                                           *)
(***************************************************************************)
ContainerInit ==
    /\ LocksNew
    /\ SchedulerNew
    /\ line_578 = "as_written"
    /\ ThreadSetUnused
    /\ \E capacity \in 0..MaxContainerCapacity : ContainerNew(capacity)

ContainerUnchanged == UNCHANGED <<lock_vars, sched_vars, thread_set>>

InsertNewTransaction ==
    /\ ~container.panicked
    /\ transaction_id_generator < MaxTransactionIds
    /\ transaction_id_generator' = transaction_id_generator + 1
    /\ \E packet \in PacketPriority :
         /\ container' = insert_new_transaction(container, transaction_id_generator + 1,
                                                packet, MaxAgeSlot)
         /\ container_call' =
               [op |-> "insert_new_transaction",
                ret |-> push_id_into_queue(
                            container,
                            TransactionPriorityId_new(packet, transaction_id_generator + 1)).ret]
    /\ ContainerUnchanged

PushIdIntoQueue ==
    /\ ~container.panicked
    /\ transaction_id_generator < MaxTransactionIds
    /\ transaction_id_generator' = transaction_id_generator + 1
    /\ \E p \in PacketPriority :
         \E r \in {push_id_into_queue(
                       container, TransactionPriorityId_new(p, transaction_id_generator + 1))} :
            /\ container' = r.c
            /\ container_call' = [op |-> "push_id_into_queue", ret |-> r.ret]
    /\ ContainerUnchanged

RetryTransaction ==
    /\ ~container.panicked
    /\ \E transaction_id \in TransactionId :
         /\ \A i \in 1..Len(container.priority_queue) :
               container.priority_queue[i].id # transaction_id
         /\ container' = retry_transaction(container, transaction_id, MaxAgeSlot)
         /\ container_call' =
               [op |-> "retry_transaction",
                ret |-> /\ transaction_id \in DOMAIN container.id_to_packet
                        /\ push_id_into_queue(
                               container,
                               TransactionPriorityId_new(container.id_to_packet[transaction_id],
                                                         transaction_id)).ret]
    /\ UNCHANGED transaction_id_generator
    /\ ContainerUnchanged

TakeTopN ==
    /\ ~container.panicked
    /\ \E n \in 0..MaxTakeN, consumed \in 0..MaxTakeN :
         /\ consumed <= n
         /\ container' = take_top_n(container, n, consumed).c
         /\ container_call' = [op |-> "take_top_n", ret |-> FALSE]
    /\ UNCHANGED transaction_id_generator
    /\ ContainerUnchanged

DrainQueue ==
    /\ ~container.panicked
    /\ container' = drain_queue(container).c
    /\ container_call' = [op |-> "drain_queue", ret |-> FALSE]
    /\ UNCHANGED transaction_id_generator
    /\ ContainerUnchanged

RemoveById ==
    /\ ~container.panicked
    /\ \E id \in TransactionId :
         /\ container' = remove_by_id(container, id)
         /\ container_call' = [op |-> "remove_by_id", ret |-> FALSE]
    /\ UNCHANGED transaction_id_generator
    /\ ContainerUnchanged

ContainerNext ==
    \/ InsertNewTransaction
    \/ PushIdIntoQueue
    \/ RetryTransaction
    \/ TakeTopN
    \/ DrainQueue
    \/ RemoveById

ContainerSpec == ContainerInit /\ [][ContainerNext]_vars

(***************************************************************************)
(* The scheduler thread, the deserializer and the workers.  One iteration  *)
(* of run is three steps, split where the thread waits on a channel or     *)
(* hands a batch over: the timed receive of packets, the timed receive of  *)
(* a processed batch, and get_next_transaction_batch with the send.        *)
(***************************************************************************)
Running == pc \in {"receive", "completion", "schedule"}

\* the batches of packets get_deserialized_packets can answer
PacketBatches == UNION {[1..k -> Hash \X BOOLEAN] : k \in 1..MaxRecvBatch}

AfterStep(q, next) == IF q.panicked THEN "panicked" ELSE next

SchedUnchangedByReceive ==
    UNCHANGED <<held_packets, forward_filter, current_batches, batch_id_generator,
                scheduled_batches, scheduled_packet_batch_channel,
                processed_packet_batch_channel, workers, ingress_connected,
                handles_alive, line_578>>

\* receive_and_buffer_packets answers Ok with a batch of packets
ReceivePackets ==
    /\ pc = "receive"
    /\ ingress_connected
    /\ \E packets \in PacketBatches, tie \in TieBreak :
         /\ arrivals + Len(packets) <= MaxArrivals
         /\ \E q \in {InsertNewPackets(transaction_queue, packets, line_578, tie)} :
              /\ transaction_queue' = q
              /\ pc' = AfterStep(q, "completion")
         /\ arrivals' = arrivals + Len(packets)
    /\ SchedUnchangedByReceive
    /\ UNCHANGED outside_scheduler

\* receive_and_buffer_packets answers Err(Timeout)
ReceivePacketsTimeout ==
    /\ pc = "receive"
    /\ ingress_connected
    /\ pc' = "completion"
    /\ UNCHANGED <<transaction_queue, arrivals>>
    /\ SchedUnchangedByReceive
    /\ UNCHANGED outside_scheduler

\* mutant: Err(Disconnected) is taken as a timeout and the loop goes on
ReceivePacketsDisconnected_continues ==
    /\ pc = "receive"
    /\ ~ingress_connected
    /\ pc' = "completion"
    /\ UNCHANGED <<transaction_queue, arrivals>>
    /\ SchedUnchangedByReceive
    /\ UNCHANGED outside_scheduler

\* receive_and_buffer_packets answers Err(Disconnected): break
ReceivePacketsDisconnected ==
    /\ pc = "receive"
    /\ ~ingress_connected
    /\ pc' = "exited"
    /\ UNCHANGED <<transaction_queue, arrivals>>
    /\ SchedUnchangedByReceive
    /\ UNCHANGED outside_scheduler

\* mutant: the reports are drained, the loop stays at the completion step
ReceiveProcessedBatch_drains ==
    /\ pc = "completion"
    /\ processed_packet_batch_channel # << >>
    /\ \E tie \in TieBreak :
         \E r \in {complete_batch(transaction_queue, current_batches, scheduled_batches,
                                  Head(processed_packet_batch_channel), tie)} :
            /\ transaction_queue' = r.q
            /\ current_batches' = r.current_batches
            /\ pc' = AfterStep(r.q, "completion")
    /\ processed_packet_batch_channel' = Tail(processed_packet_batch_channel)
    /\ UNCHANGED <<held_packets, forward_filter, batch_id_generator, scheduled_batches,
                   scheduled_packet_batch_channel, workers, ingress_connected,
                   handles_alive, arrivals, line_578>>
    /\ UNCHANGED outside_scheduler

\* recv_timeout answers Ok(processed_batch): complete_batch
ReceiveProcessedBatch ==
    /\ pc = "completion"
    /\ processed_packet_batch_channel # << >>
    /\ \E tie \in TieBreak :
         \E r \in {complete_batch(transaction_queue, current_batches, scheduled_batches,
                                  Head(processed_packet_batch_channel), tie)} :
            /\ transaction_queue' = r.q
            /\ current_batches' = r.current_batches
            /\ pc' = AfterStep(r.q, "schedule")
    /\ processed_packet_batch_channel' = Tail(processed_packet_batch_channel)
    /\ UNCHANGED <<held_packets, forward_filter, batch_id_generator, scheduled_batches,
                   scheduled_packet_batch_channel, workers, ingress_connected,
                   handles_alive, arrivals, line_578>>
    /\ UNCHANGED outside_scheduler

\* recv_timeout answers Err(Timeout), or Err(Disconnected): break
ReceiveProcessedBatchNone ==
    /\ pc = "completion"
    /\ processed_packet_batch_channel = << >>
    /\ pc' = IF handles_alive THEN "schedule" ELSE "exited"
    /\ UNCHANGED <<transaction_queue, held_packets, forward_filter, current_batches,
                   batch_id_generator, scheduled_batches, scheduled_packet_batch_channel,
                   processed_packet_batch_channel, workers, ingress_connected,
                   handles_alive, arrivals, line_578>>
    /\ UNCHANGED outside_scheduler

\* mutant: create_scheduled_batch does not insert the batch in current_batches
GetNextTransactionBatch_unrecorded ==
    /\ pc = "schedule"
    /\ \E decision \in Decision, add_packet \in BOOLEAN, tie \in TieBreak :
         \E r \in {get_next_transaction_batch(transaction_queue, held_packets,
                                              forward_filter, decision, add_packet, tie)} :
            /\ transaction_queue' = r.q
            /\ forward_filter' = r.forward_filter
            /\ held_packets' = IF decision = "Consume" THEN << >> ELSE held_packets
            /\ IF r.q.panicked
               THEN /\ pc' = "panicked"
                    /\ UNCHANGED <<current_batches, batch_id_generator, scheduled_batches,
                                   scheduled_packet_batch_channel>>
               ELSE IF r.batch = << >>
               THEN /\ pc' = "receive"
                    /\ UNCHANGED <<current_batches, batch_id_generator, scheduled_batches,
                                   scheduled_packet_batch_channel>>
               ELSE /\ batch_id_generator < MaxBatches
                    /\ \E id \in {generate_id(batch_id_generator)} :
                         /\ batch_id_generator' = id
                         /\ scheduled_batches' =
                               MapInsert(scheduled_batches, id,
                                   [id |-> id, processing_instruction |-> decision,
                                    deserialized_packets |-> r.batch,
                                    worker |-> 0, finished |-> FALSE])
                         /\ current_batches' = current_batches
                         /\ IF handles_alive
                            THEN /\ scheduled_packet_batch_channel' =
                                        Append(scheduled_packet_batch_channel, id)
                                 /\ pc' = "receive"
                            ELSE /\ UNCHANGED scheduled_packet_batch_channel
                                 /\ pc' = "exited"
    /\ UNCHANGED <<processed_packet_batch_channel, workers, ingress_connected,
                   handles_alive, arrivals, line_578>>
    /\ UNCHANGED outside_scheduler

\* get_next_transaction_batch, create_scheduled_batch and the send
GetNextTransactionBatch ==
    /\ pc = "schedule"
    /\ \E decision \in Decision, add_packet \in BOOLEAN, tie \in TieBreak :
         \E r \in {get_next_transaction_batch(transaction_queue, held_packets,
                                              forward_filter, decision, add_packet, tie)} :
            /\ transaction_queue' = r.q
            /\ forward_filter' = r.forward_filter
            /\ held_packets' = IF decision = "Consume" THEN << >> ELSE held_packets
            /\ IF r.q.panicked
               THEN /\ pc' = "panicked"
                    /\ UNCHANGED <<current_batches, batch_id_generator, scheduled_batches,
                                   scheduled_packet_batch_channel>>
               ELSE IF r.batch = << >>
               THEN /\ pc' = "receive"
                    /\ UNCHANGED <<current_batches, batch_id_generator, scheduled_batches,
                                   scheduled_packet_batch_channel>>
               ELSE /\ batch_id_generator < MaxBatches
                    /\ \E id \in {generate_id(batch_id_generator)} :
                         /\ batch_id_generator' = id
                         /\ scheduled_batches' =
                               MapInsert(scheduled_batches, id,
                                   [id |-> id, processing_instruction |-> decision,
                                    deserialized_packets |-> r.batch,
                                    worker |-> 0, finished |-> FALSE])
                         /\ current_batches' = MapInsert(current_batches, id, decision)
                         /\ IF handles_alive
                            THEN /\ scheduled_packet_batch_channel' =
                                        Append(scheduled_packet_batch_channel, id)
                                 /\ pc' = "receive"
                            ELSE /\ UNCHANGED scheduled_packet_batch_channel
                                 /\ pc' = "exited"
    /\ UNCHANGED <<processed_packet_batch_channel, workers, ingress_connected,
                   handles_alive, arrivals, line_578>>
    /\ UNCHANGED outside_scheduler

\* a worker's get_next_transaction_batch answers a batch
WorkerGetNextTransactionBatch ==
    /\ handles_alive
    /\ scheduled_packet_batch_channel # << >>
    /\ \E w \in Worker :
         /\ workers[w] = 0
         /\ workers' = [workers EXCEPT ![w] = Head(scheduled_packet_batch_channel)]
         /\ scheduled_batches' =
               [scheduled_batches EXCEPT ![Head(scheduled_packet_batch_channel)].worker = w]
    /\ scheduled_packet_batch_channel' = Tail(scheduled_packet_batch_channel)
    /\ UNCHANGED <<transaction_queue, held_packets, forward_filter, current_batches,
                   batch_id_generator, processed_packet_batch_channel, pc,
                   ingress_connected, handles_alive, arrivals, line_578>>
    /\ UNCHANGED outside_scheduler

\* a worker has executed its batch and calls complete_batch on the handle
WorkerCompleteBatch ==
    /\ handles_alive
    /\ \E w \in Worker :
         /\ workers[w] > 0
         /\ scheduled_batches' = [scheduled_batches EXCEPT ![workers[w]].finished = TRUE]
         /\ IF Running
            THEN /\ \E retryable_packets \in
                        [1..Len(scheduled_batches[workers[w]].deserialized_packets) -> BOOLEAN] :
                      processed_packet_batch_channel' =
                          Append(processed_packet_batch_channel,
                                 [id |-> workers[w], retryable_packets |-> retryable_packets])
                 /\ workers' = [workers EXCEPT ![w] = 0]
            ELSE /\ workers' = [workers EXCEPT ![w] = -1]
                 /\ UNCHANGED processed_packet_batch_channel
    /\ UNCHANGED <<transaction_queue, held_packets, forward_filter, current_batches,
                   batch_id_generator, scheduled_packet_batch_channel, pc,
                   ingress_connected, handles_alive, arrivals, line_578>>
    /\ UNCHANGED outside_scheduler

\* the deserializer drops its sender (of no effect once the thread has ended)
IngressDisconnect ==
    /\ Running
    /\ ingress_connected
    /\ ingress_connected' = FALSE
    /\ UNCHANGED <<transaction_queue, held_packets, forward_filter, current_batches,
                   batch_id_generator, scheduled_batches, scheduled_packet_batch_channel,
                   processed_packet_batch_channel, pc, workers, handles_alive, arrivals,
                   line_578>>
    /\ UNCHANGED outside_scheduler

\* the last clone of the banking handle is dropped
HandlesDropped ==
    /\ Running
    /\ handles_alive
    /\ handles_alive' = FALSE
    /\ UNCHANGED <<transaction_queue, held_packets, forward_filter, current_batches,
                   batch_id_generator, scheduled_batches, scheduled_packet_batch_channel,
                   processed_packet_batch_channel, pc, workers, ingress_connected, arrivals,
                   line_578>>
    /\ UNCHANGED outside_scheduler

Next ==
    \/ ReceivePackets
    \/ ReceivePacketsTimeout
    \/ ReceivePacketsDisconnected
    \/ ReceiveProcessedBatch
    \/ ReceiveProcessedBatchNone
    \/ GetNextTransactionBatch
    \/ WorkerGetNextTransactionBatch
    \/ WorkerCompleteBatch
    \/ IngressDisconnect
    \/ HandlesDropped

\* the program as written
Init ==
    /\ LocksNew
    /\ SchedulerNew
    /\ ThreadSetUnused
    /\ ContainerUnused
    /\ line_578 = "as_written"

Spec == Init /\ [][Next]_vars

\* the program with line 578 asserting that the hash was absent
InitAssertingAbsence ==
    /\ LocksNew
    /\ SchedulerNew
    /\ ThreadSetUnused
    /\ ContainerUnused
    /\ line_578 = "asserts_absence"

SpecAssertingAbsence == InitAssertingAbsence /\ [][Next]_vars

(***************************************************************************)
(* The two bounded heaps: either a TransactionPacketContainer is run, or   *)
(* the scheduler with its TransactionQueue, with line 578 either way.      *)
(***************************************************************************)
HeapsInit == ContainerInit \/ Init \/ InitAssertingAbsence

HeapsNext ==
    \/ (container_call.op # "unused" /\ ContainerNext)
    \/ (container_call.op = "unused" /\ Next)

HeapsSpec == HeapsInit /\ [][HeapsNext]_vars

(***************************************************************************)
(* The TransactionQueue on its own: its methods called as the scheduler    *)
(* calls them, on all the transactions of the tables.  A transaction is    *)
(* inserted when its hash is not tracked (insert_new_packet), dispatched   *)
(* by get_consume_batch and completed when it is out with a worker, that   *)
(* is tracked and neither pending nor parked.  pc is "queue" and the rest  *)
(* of the scheduler stays as new.                                          *)
(***************************************************************************)
TableHash == 1..Len(PriorityTable)

\* the transactions that are out with a worker
Dispatched(q) ==
    {h \in DOMAIN q.tracking_map :
        /\ h \notin q.pending_transactions
        /\ \A b \in DOMAIN q.blocked_transactions :
              \A i \in 1..Len(q.blocked_transactions[b]) : q.blocked_transactions[b][i] # h}

QueueInit ==
    /\ LocksNew
    /\ ThreadSetUnused
    /\ ContainerUnused
    /\ transaction_queue = TransactionQueue_with_capacity
    /\ held_packets = << >>
    /\ forward_filter = "None"
    /\ current_batches = EmptyMap
    /\ batch_id_generator = 0
    /\ scheduled_batches = EmptyMap
    /\ scheduled_packet_batch_channel = << >>
    /\ processed_packet_batch_channel = << >>
    /\ pc = "queue"
    /\ workers = [w \in Worker |-> 0]
    /\ ingress_connected = TRUE
    /\ handles_alive = TRUE
    /\ arrivals = 0
    /\ line_578 \in {"as_written", "asserts_absence"}

QueueUnchanged ==
    UNCHANGED <<held_packets, forward_filter, current_batches, batch_id_generator,
                scheduled_batches, scheduled_packet_batch_channel,
                processed_packet_batch_channel, pc, workers, ingress_connected,
                handles_alive, arrivals, line_578, lock_vars, thread_set, container_vars>>

QueueInsertTransaction ==
    /\ pc = "queue"
    /\ ~transaction_queue.panicked
    /\ \E h \in TableHash \ DOMAIN transaction_queue.tracking_map, tie \in TieBreak :
         transaction_queue' = insert_transaction(transaction_queue, h, line_578, tie)
    /\ QueueUnchanged

QueueGetConsumeBatch ==
    /\ pc = "queue"
    /\ ~transaction_queue.panicked
    /\ \E tie \in TieBreak :
         transaction_queue' = get_consume_batch(transaction_queue, tie).q
    /\ QueueUnchanged

QueueCompleteOrRetry ==
    /\ pc = "queue"
    /\ ~transaction_queue.panicked
    /\ \E h \in Dispatched(transaction_queue), retry \in BOOLEAN, tie \in TieBreak :
         transaction_queue' = complete_or_retry(transaction_queue, h, retry, tie)
    /\ QueueUnchanged

QueueNext ==
    \/ QueueInsertTransaction
    \/ QueueGetConsumeBatch
    \/ QueueCompleteOrRetry

QueueSpec == QueueInit /\ [][QueueNext]_vars

(***************************************************************************)
(* Claims about the lock table (checked under LockSpec).                   *)
(* The expected values are written over thread identifiers, from the       *)
(* counts alone, and are compared with the bit sets the code computes.     *)
(***************************************************************************)
AnyN == 0..(num_threads - 1)

WriteLocked(a) == a \in DOMAIN locks.write_locks

ReadLocked(a) == a \in DOMAIN locks.read_locks

WriteHolder(a) == locks.write_locks[a].lock_thread_id

WriteDepth(a) == locks.write_locks[a].lock_count

ReadCount(a, t) == IF ReadLocked(a) THEN locks.read_locks[a].lock_counts[t] ELSE 0

Readers(a) == {t \in ThreadId : ReadCount(a, t) > 0}

\* C3: after every non-aborting operation an account with both a write and a
\* read entry has the write holder as its only reader; no account is
\* write-locked by w while read-locked by another thread, and a write entry
\* has one holder and a depth of at least 1.
C3_AccountLockStates ==
    ~locks.panicked =>
        \A a \in Pubkey :
            /\ WriteLocked(a) => WriteHolder(a) \in ThreadId /\ WriteDepth(a) >= 1
            /\ ReadLocked(a) => locks.read_locks[a].thread_set # {}
            /\ (WriteLocked(a) /\ ReadLocked(a)) =>
                   /\ locks.read_locks[a].thread_set = {WriteHolder(a)}
                   /\ Readers(a) = {WriteHolder(a)}

\* C3 witness: an account holds a write and a read lock at once.
C3_Witness ==
    /\ ~locks.panicked
    /\ \E a \in Pubkey : WriteLocked(a) /\ ReadLocked(a)
    /\ \E b \in Pubkey : WriteLocked(b) /\ ~ReadLocked(b)

\* C4: after every non-aborting operation the holder set of a read entry is
\* the set of threads with a positive count, and the entry exists only if
\* that set is not empty.
C4_HolderSetIsPositiveCounts ==
    ~locks.panicked =>
        \A a \in DOMAIN locks.read_locks :
            /\ locks.read_locks[a].thread_set = Readers(a)
            /\ Readers(a) # {}

\* C4 witness: a read unlock left an entry whose holder still has a count.
C4_Witness ==
    /\ ~locks.panicked
    /\ call.op = "read_unlock_account"
    /\ \E a \in Pubkey : ReadLocked(a) /\ \E t \in ThreadId : ReadCount(a, t) >= 1
    /\ \E b \in Pubkey : ~ReadLocked(b)

\* C5: read-locking an account on t2 while it is read-locked only by another
\* thread t1 and not write-locked succeeds; then both hold it, no thread may
\* write-schedule it and every thread may read-schedule it.
C5_ConcurrentReaders ==
    ~locks.panicked =>
        \A a \in Pubkey, t1, t2 \in ThreadId :
            (t1 # t2 /\ ~WriteLocked(a) /\ Readers(a) = {t1} /\ ReadCount(a, t1) < SeqLimit) =>
                LET s == read_lock_account(locks, a, t2)
                IN  /\ ~s.panicked
                    /\ s.read_locks[a].thread_set = {t1, t2}
                    /\ write_schedulable_threads(s, a) = {}
                    /\ read_schedulable_threads(s, a) = AnyN

\* C6: write_schedulable_threads follows the table: any(N) without locks;
\* only(w) under a write lock of depth < L, else none; only(t) under read
\* locks of one thread t with count < L, else none; only(w) under write and
\* read locks of w with depth + count < L, else none.
C6_WriteSchedulableTable ==
    ~locks.panicked =>
        \A a \in Pubkey :
            write_schedulable_threads(locks, a) =
                CASE ~WriteLocked(a) /\ ~ReadLocked(a) -> AnyN
                  [] WriteLocked(a) /\ ~ReadLocked(a) ->
                        IF WriteDepth(a) < SeqLimit THEN {WriteHolder(a)} ELSE {}
                  [] ~WriteLocked(a) /\ ReadLocked(a) ->
                        {t \in ThreadId : Readers(a) = {t} /\ ReadCount(a, t) < SeqLimit}
                  [] WriteLocked(a) /\ ReadLocked(a) ->
                        IF WriteDepth(a) + ReadCount(a, WriteHolder(a)) < SeqLimit
                        THEN {WriteHolder(a)} ELSE {}

\* C7 as claimed: read_schedulable_threads is any(N) without locks, only(w)
\* under any write lock of w whatever the depth and the read count, and
\* any(N) without the threads whose count is L under read locks alone.
C7_ReadSchedulableIgnoresDepth ==
    ~locks.panicked =>
        \A a \in Pubkey :
            read_schedulable_threads(locks, a) =
                CASE ~WriteLocked(a) /\ ~ReadLocked(a) -> AnyN
                  [] WriteLocked(a) -> {WriteHolder(a)}
                  [] ~WriteLocked(a) /\ ReadLocked(a) ->
                        AnyN \ {t \in ThreadId : ReadCount(a, t) = SeqLimit}

\* C7 as amended: under a write lock of w the answer is only(w) unless the
\* write depth (plus w's read count, if w also reads) equals L, when it is none.
C7_ReadSchedulableTable ==
    ~locks.panicked =>
        \A a \in Pubkey :
            read_schedulable_threads(locks, a) =
                CASE ~WriteLocked(a) /\ ~ReadLocked(a) -> AnyN
                  [] WriteLocked(a) ->
                        IF WriteDepth(a) + ReadCount(a, WriteHolder(a)) = SeqLimit
                        THEN {} ELSE {WriteHolder(a)}
                  [] ~WriteLocked(a) /\ ReadLocked(a) ->
                        AnyN \ {t \in ThreadId : ReadCount(a, t) = SeqLimit}

\* C7 witness: a write lock at depth L, a write lock below it, and read
\* locks alone with a thread at count L.
C7_Witness ==
    /\ ~locks.panicked
    /\ \E a \in Pubkey :
          /\ WriteLocked(a) /\ ~ReadLocked(a) /\ WriteDepth(a) = SeqLimit
          /\ read_schedulable_threads(locks, a) = {}
    /\ \E b \in Pubkey :
          /\ ~WriteLocked(b) /\ \E t \in ThreadId : ReadCount(b, t) = SeqLimit
          /\ read_schedulable_threads(locks, b) # AnyN

ListedAccounts(a) == {a[1][i] : i \in 1..Len(a[1])} \cup {a[2][i] : i \in 1..Len(a[2])}

\* the threads in every listed account's write- resp. read-schedulable set
SchedulableOnAll(a) ==
    {t \in AnyN :
        /\ \A i \in 1..Len(a[1]) : t \in write_schedulable_threads(locks, a[1][i])
        /\ \A i \in 1..Len(a[2]) : t \in read_schedulable_threads(locks, a[2][i])}

\* C8 as claimed: accounts_schedulable_threads is the intersection of any(N)
\* with the listed accounts' sets; any(N) for empty lists; only(w) when one
\* listed account is write-locked by w and the others are unlocked; none when
\* two listed write accounts are write-locked by different threads.
C8_AccountsSchedulable ==
    ~locks.panicked =>
        \A a \in LockArgs :
            LET S == accounts_schedulable_threads(locks, a[1], a[2])
            IN  /\ S = SchedulableOnAll(a)
                /\ (a[1] = <<>> /\ a[2] = <<>>) => S = AnyN
                /\ \A x \in ListedAccounts(a) :
                      (/\ WriteLocked(x)
                       /\ \A y \in ListedAccounts(a) \ {x} : ~WriteLocked(y) /\ ~ReadLocked(y))
                      => S = {WriteHolder(x)}
                /\ \A i, j \in 1..Len(a[1]) :
                      (/\ WriteLocked(a[1][i]) /\ WriteLocked(a[1][j])
                       /\ WriteHolder(a[1][i]) # WriteHolder(a[1][j]))
                      => S = {}

\* C8 as amended: the answer is only(w) when one listed account is
\* write-locked by w with a depth (plus w's read count on it) other than L
\* and the others are unlocked.
C8_AccountsSchedulableBelowLimit ==
    ~locks.panicked =>
        \A a \in LockArgs :
            LET S == accounts_schedulable_threads(locks, a[1], a[2])
            IN  /\ S = SchedulableOnAll(a)
                /\ (a[1] = <<>> /\ a[2] = <<>>) => S = AnyN
                /\ \A x \in ListedAccounts(a) :
                      (/\ WriteLocked(x)
                       /\ WriteDepth(x) + ReadCount(x, WriteHolder(x)) # SeqLimit
                       /\ \A y \in ListedAccounts(a) \ {x} : ~WriteLocked(y) /\ ~ReadLocked(y))
                      => S = {WriteHolder(x)}
                /\ \A i, j \in 1..Len(a[1]) :
                      (/\ WriteLocked(a[1][i]) /\ WriteLocked(a[1][j])
                       /\ WriteHolder(a[1][i]) # WriteHolder(a[1][j]))
                      => S = {}

\* C8 witness: two accounts write-locked by two threads (scenario S1), so
\* that a query of both is none and a query of one is its holder.
C8_Witness ==
    /\ ~locks.panicked
    /\ \E x, y \in Pubkey :
          /\ WriteLocked(x) /\ WriteLocked(y) /\ WriteHolder(x) # WriteHolder(y)
          /\ WriteDepth(x) < SeqLimit /\ ~ReadLocked(x)
          /\ accounts_schedulable_threads(locks, <<x, y>>, <<>>) = {}
          /\ accounts_schedulable_threads(locks, <<x>>, <<>>) = {WriteHolder(x)}

\* C9: when no thread is schedulable, try_lock_accounts answers None, does
\* not ask the selector and leaves write_locks and read_locks as they were.
C9_TryLockNoneChangesNothing ==
    ~locks.panicked =>
        \A a \in LockArgs, selected \in ThreadId :
            ThreadSet_is_empty(accounts_schedulable_threads(locks, a[1], a[2])) =>
                LET r == try_lock_accounts(locks, a[1], a[2], selected)
                IN  /\ r.ret = None
                    /\ ~r.selector_called
                    /\ r.locks.write_locks = locks.write_locks
                    /\ r.locks.read_locks = locks.read_locks
                    /\ ~r.locks.panicked

\* C9 witness: a try_lock_accounts call has answered None on a locked table.
C9_Witness ==
    /\ call.op = "try_lock_accounts"
    /\ call.ret = None
    /\ ~call.selector_called
    /\ \E a \in Pubkey : WriteLocked(a) \/ ReadLocked(a)

\* C10: a try_lock_accounts call with duplicate-free, disjoint lists whose
\* selector answers a member of the offered set never aborts: every listed
\* account is then locked on the chosen thread, which is returned.
C10_TryLockNeverAborts ==
    ~locks.panicked =>
        \A a \in LockArgs, selected \in ThreadId :
            (/\ DuplicateFree(a[1]) /\ DuplicateFree(a[2]) /\ Disjoint(a[1], a[2])
             /\ selected \in accounts_schedulable_threads(locks, a[1], a[2])) =>
                LET r == try_lock_accounts(locks, a[1], a[2], selected)
                IN  /\ ~r.locks.panicked
                    /\ r.ret = selected
                    /\ \A i \in 1..Len(a[1]) :
                          /\ a[1][i] \in DOMAIN r.locks.write_locks
                          /\ r.locks.write_locks[a[1][i]].lock_thread_id = selected
                    /\ \A i \in 1..Len(a[2]) :
                          /\ a[2][i] \in DOMAIN r.locks.read_locks
                          /\ r.locks.read_locks[a[2][i]].lock_counts[selected] >= 1


\* the locks in the table that a call with the lists a conflicts with:
\* write and read locks on the accounts it writes, write locks on those it reads
ConflictingHolders(a) ==
    UNION {(IF WriteLocked(a[1][i]) THEN {WriteHolder(a[1][i])} ELSE {})
               \cup Readers(a[1][i]) : i \in 1..Len(a[1])}
    \cup {WriteHolder(a[2][i]) : i \in {j \in 1..Len(a[2]) : WriteLocked(a[2][j])}}

\* C11: when try_lock_accounts answers Some(t), every lock in the table that
\* conflicts with the call's lists is held by t, and the table after the
\* call has no account write-locked by one thread and locked by another.
C11_RoutesToLockHolder ==
    ~locks.panicked =>
        \A a \in LockArgs, selected \in ThreadId :
            LET r == try_lock_accounts(locks, a[1], a[2], selected)
            IN  (r.ret # None /\ ~r.locks.panicked) =>
                    /\ ConflictingHolders(a) \subseteq {r.ret}
                    /\ \A x \in DOMAIN r.locks.write_locks :
                          x \in DOMAIN r.locks.read_locks =>
                              \A t \in ThreadId :
                                  r.locks.read_locks[x].lock_counts[t] > 0 =>
                                      t = r.locks.write_locks[x].lock_thread_id

\* C11 witness: a try_lock_accounts call has answered Some(t) on a table
\* where a further conflicting call is answered with the holder.
C11_Witness ==
    /\ ~locks.panicked
    /\ call.op = "try_lock_accounts"
    /\ call.ret # None
    /\ \E a \in LockArgs, selected \in ThreadId :
          /\ ConflictingHolders(a) # {}
          /\ try_lock_accounts(locks, a[1], a[2], selected).ret = selected
          /\ ~try_lock_accounts(locks, a[1], a[2], selected).locks.panicked

\* the caller's unlocking of lists: one unlock call per listed account
RECURSIVE WriteUnlockEach(_, _, _)
WriteUnlockEach(s, accounts, thread_id) ==
    IF accounts = <<>> \/ s.panicked THEN s
    ELSE WriteUnlockEach(write_unlock_account(s, Head(accounts), thread_id),
                         Tail(accounts), thread_id)

RECURSIVE ReadUnlockEach(_, _, _)
ReadUnlockEach(s, accounts, thread_id) ==
    IF accounts = <<>> \/ s.panicked THEN s
    ELSE ReadUnlockEach(read_unlock_account(s, Head(accounts), thread_id),
                        Tail(accounts), thread_id)

\* j write unlocks of one account on one thread
RECURSIVE WriteUnlockTimes(_, _, _, _)
WriteUnlockTimes(s, account, thread_id, j) ==
    IF j = 0 \/ s.panicked THEN s
    ELSE WriteUnlockTimes(write_unlock_account(s, account, thread_id),
                          account, thread_id, j - 1)

C13_OwnershipViolationsAbort ==
    ~locks.panicked =>
        \A a \in Pubkey, t \in ThreadId :
            /\ ~WriteLocked(a) => write_unlock_account(locks, a, t).panicked
            /\ (WriteLocked(a) /\ WriteHolder(a) # t) =>
                   write_unlock_account(locks, a, t).panicked
            /\ ~ReadLocked(a) => read_unlock_account(locks, a, t).panicked
            /\ (ReadLocked(a) /\ t \notin Readers(a)) =>
                   read_unlock_account(locks, a, t).panicked
            /\ (WriteLocked(a) /\ WriteHolder(a) # t) =>
                   /\ write_lock_account(locks, a, t).panicked
                   /\ read_lock_account(locks, a, t).panicked
            /\ (Readers(a) \ {t} # {}) => write_lock_account(locks, a, t).panicked

\* C13 witness: a write unlock has aborted on a table that holds a write
\* lock of one thread and a read lock of another thread on another account.
C13_Witness ==
    /\ locks.panicked
    /\ call.op = "write_unlock_account"
    /\ \E a, b \in Pubkey :
          /\ WriteLocked(a) /\ ~ReadLocked(a)
          /\ ReadLocked(b) /\ ~WriteLocked(b) /\ WriteHolder(a) \notin Readers(b)

\* C14: a lock_accounts call that would raise an account's write depth above
\* the limit aborts, and so does one that would raise a thread's read count
\* on an account above the limit.
C14_LimitExceededAborts ==
    ~locks.panicked =>
        \A a \in Pubkey, t \in ThreadId :
            /\ (WriteLocked(a) /\ WriteHolder(a) = t /\ WriteDepth(a) >= SeqLimit) =>
                   lock_accounts(locks, <<a>>, <<>>, t).panicked
            /\ ReadCount(a, t) >= SeqLimit =>
                   lock_accounts(locks, <<>>, <<a>>, t).panicked

\* C15: when every lock is taken through try_lock_accounts with
\* duplicate-free, disjoint lists and a selector answering a member of the
\* offered set, every write depth and every read count is at most the limit,
\* and so is the write depth plus the write holder's read count.
C15_GatedCountsWithinLimit ==
    \A a \in Pubkey :
        /\ WriteLocked(a) => WriteDepth(a) <= SeqLimit
        /\ \A t \in ThreadId : ReadCount(a, t) <= SeqLimit
        /\ WriteLocked(a) => WriteDepth(a) + ReadCount(a, WriteHolder(a)) <= SeqLimit

\* C15 witness: a gated try_lock_accounts call has brought an account's
\* write depth plus its holder's read count to the limit with both at least
\* 1, and another account's read count to the limit.
C15_Witness ==
    /\ ~locks.panicked
    /\ call.op = "try_lock_accounts"
    /\ call.ret # None
    /\ \E a, b \in Pubkey :
          /\ WriteLocked(a) /\ ReadLocked(a)
          /\ WriteDepth(a) + ReadCount(a, WriteHolder(a)) = SeqLimit
          /\ write_schedulable_threads(locks, a) = {}
          /\ ~WriteLocked(b)
          /\ \E t \in ThreadId : ReadCount(b, t) = SeqLimit

\* C16: for every thread count N that new accepts, the query of the empty
\* table answers, and its answer ThreadSet::any(N) is the set {0, ..., N-1}.
C16_AnyIsAllThreads ==
    thread_set.pc \in {"answered", "panicked_in_any"} =>
        /\ thread_set.pc = "answered"
        /\ thread_set.ret = 0..(thread_set.num_threads - 1)

\* Below the width (N < MAX_THREADS) the answer is {0, ..., N-1}.
BelowWidth_AnyIsAllThreads ==
    (thread_set.pc \in {"answered", "panicked_in_any"}
        /\ thread_set.num_threads < MAX_THREADS) =>
        /\ thread_set.pc = "answered"
        /\ thread_set.ret = 0..(thread_set.num_threads - 1)

(***************************************************************************)
(* Claims about the TransactionPacketContainer (checked under              *)
(* ContainerSpec) and about the pending heap of the TransactionQueue.      *)
(***************************************************************************)
HeapIds(c) == {c.priority_queue[i].id : i \in 1..Len(c.priority_queue)}

\* C17 (container): after any sequence of insert_new_transaction,
\* retry_transaction, push_id_into_queue, take_top_n, drain_queue and
\* remove_by_id the heap holds at most capacity elements.
C17_HeapWithinCapacity ==
    /\ MinMaxHeap_len(container.priority_queue) <= container.capacity
    /\ Cardinality(transaction_queue.pending_transactions) <= Capacity

\* C17 witness: the container's heap is full after an accepted insert, and
\* a further push above its minimum is accepted and leaves it full.
C17_Witness ==
    /\ container.capacity >= 1
    /\ MinMaxHeap_len(container.priority_queue) = container.capacity
    /\ container_call.op = "insert_new_transaction"
    /\ container_call.ret
    /\ transaction_id_generator > container.capacity
    /\ transaction_id_generator < MaxTransactionIds
    /\ \E p \in PacketPriority :
          LET r == push_id_into_queue(
                       container, TransactionPriorityId_new(p, transaction_id_generator + 1))
          IN  /\ r.ret
              /\ MinMaxHeap_len(r.c.priority_queue) = container.capacity
              /\ HeapIds(r.c) # HeapIds(container)

\* the pending heap of the TransactionQueue is full after an arrival was
\* dropped or has evicted another
PendingHeapFullAfterEviction ==
    /\ ~transaction_queue.panicked
    /\ Cardinality(transaction_queue.pending_transactions) = Capacity
    /\ arrivals > Capacity
    /\ scheduled_batches = EmptyMap
    /\ Cardinality(DOMAIN transaction_queue.tracking_map) = Capacity

\* the heap is full and the priority p is below every element's
BelowFullHeap(c, p) ==
    /\ MinMaxHeap_len(c.priority_queue) = c.capacity
    /\ \A i \in 1..Len(c.priority_queue) : p < c.priority_queue[i].priority

\* the id the next new transaction gets
NextTransactionId == transaction_id_generator + 1

\* C18: inserting a new transaction whose priority is below every element of
\* a full heap is answered "dropped" by push_id_into_queue and leaves the
\* heap, the packet map and the transaction map as they were, none of them
\* holding the candidate.
C18_LowerCandidateDropped ==
    (~container.panicked /\ NextTransactionId \in TransactionId) =>
        \A p \in PacketPriority :
            BelowFullHeap(container, p) =>
                LET priority_id == TransactionPriorityId_new(p, NextTransactionId)
                    c == insert_new_transaction(container, NextTransactionId, p, MaxAgeSlot)
                IN  /\ ~push_id_into_queue(container, priority_id).ret
                    /\ push_id_into_queue(container, priority_id).c = container
                    /\ c.priority_queue = container.priority_queue
                    /\ c.id_to_packet = container.id_to_packet
                    /\ c.id_to_transaction_ttl = container.id_to_transaction_ttl
                    /\ NextTransactionId \notin HeapIds(c)
                    /\ NextTransactionId \notin DOMAIN c.id_to_packet
                    /\ NextTransactionId \notin DOMAIN c.id_to_transaction_ttl

\* C18 witness: an insert_new_transaction was dropped by a full heap of
\* capacity at least 1, and a further candidate below the heap is possible.
C18_Witness ==
    /\ ~container.panicked
    /\ container_call.op = "insert_new_transaction"
    /\ ~container_call.ret
    /\ container.capacity >= 1
    /\ transaction_id_generator \notin HeapIds(container)
    /\ transaction_id_generator \notin DOMAIN container.id_to_packet
    /\ NextTransactionId \in TransactionId
    /\ BelowFullHeap(container, 0)

\* the three sides hold the same ids, the heap each of them once
Synchronized(c) ==
    /\ HeapIds(c) = DOMAIN c.id_to_packet
    /\ HeapIds(c) = DOMAIN c.id_to_transaction_ttl
    /\ Cardinality(HeapIds(c)) = Len(c.priority_queue)

\* C19: inserting a new transaction whose priority is above the minimum of a
\* full heap is accepted: the minimum leaves the heap and both maps, and the
\* candidate is in the heap and in both maps.  In a container of capacity 1
\* that held nothing but inserted transactions, an insert of a higher
\* priority leaves the new transaction alone in all three structures.
C19_HigherCandidateEvictsMinimum ==
    (~container.panicked /\ NextTransactionId \in TransactionId) =>
        \A p \in PacketPriority :
            LET priority_id == TransactionPriorityId_new(p, NextTransactionId)
                c == insert_new_transaction(container, NextTransactionId, p, MaxAgeSlot)
            IN  /\ (/\ container.priority_queue # <<>>
                    /\ MinMaxHeap_len(container.priority_queue) = container.capacity
                    /\ p > MinMaxHeap_peek_min(container.priority_queue).priority) =>
                       LET min == MinMaxHeap_peek_min(container.priority_queue)
                       IN  /\ push_id_into_queue(container, priority_id).ret
                           /\ min.id \notin HeapIds(c)
                           /\ min.id \notin DOMAIN c.id_to_packet
                           /\ min.id \notin DOMAIN c.id_to_transaction_ttl
                           /\ NextTransactionId \in HeapIds(c)
                           /\ NextTransactionId \in DOMAIN c.id_to_packet
                           /\ NextTransactionId \in DOMAIN c.id_to_transaction_ttl
                           /\ c.id_to_packet[NextTransactionId] = p
                           /\ MinMaxHeap_len(c.priority_queue) = container.capacity
                /\ (/\ container.capacity = 1
                    /\ Synchronized(container)
                    /\ \A i \in 1..Len(container.priority_queue) :
                          p > container.priority_queue[i].priority) =>
                       /\ c.priority_queue = <<priority_id>>
                       /\ DOMAIN c.id_to_packet = {NextTransactionId}
                       /\ DOMAIN c.id_to_transaction_ttl = {NextTransactionId}

\* C19 witness: in a container of capacity 1 the third transaction inserted
\* is alone in all three structures, with a priority that leaves room for
\* two lower ones before it.
C19_Witness ==
    /\ ~container.panicked
    /\ container.capacity = 1
    /\ container_call.op = "insert_new_transaction"
    /\ container_call.ret
    /\ transaction_id_generator >= 3
    /\ container.priority_queue # <<>>
    /\ container.priority_queue[1].priority >= 2
    /\ HeapIds(container) = {transaction_id_generator}
    /\ DOMAIN container.id_to_packet = {transaction_id_generator}
    /\ DOMAIN container.id_to_transaction_ttl = {transaction_id_generator}

ContainerOperations ==
    {"insert_new_transaction", "take_top_n", "drain_queue", "retry_transaction", "remove_by_id"}

NonIncreasingPriority(seq) ==
    \A i, j \in 1..Len(seq) : i < j => seq[i].priority >= seq[j].priority

Occurrences(seq, e) == Cardinality({i \in 1..Len(seq) : seq[i] = e})

\* seq1 followed by seq2 holds the elements of seq, each as often
SplitOf(seq1, seq2, seq) ==
    /\ Len(seq1) + Len(seq2) = Len(seq)
    /\ \A i \in 1..Len(seq) :
          Occurrences(seq1, seq[i]) + Occurrences(seq2, seq[i]) = Occurrences(seq, seq[i])

PacketsOf(id) ==
    {scheduled_batches[id].deserialized_packets[i] :
        i \in 1..Len(scheduled_batches[id].deserialized_packets)}

AccountsOf(accounts) == {accounts[i] : i \in 1..Len(accounts)}

\* t1 and t2 conflict: an account one of them writes and the other reads or writes
Conflict(t1, t2) ==
    \/ AccountsOf(writable(t1)) \cap (AccountsOf(writable(t2)) \cup AccountsOf(readonly(t2))) # {}
    \/ AccountsOf(readonly(t1)) \cap AccountsOf(writable(t2)) # {}

\* the Consume batches dispatched whose completion is not yet processed
InFlightConsume == {id \in DOMAIN current_batches : current_batches[id] = "Consume"}

ConsumeBatches ==
    {id \in DOMAIN scheduled_batches : scheduled_batches[id].processing_instruction = "Consume"}

Positions(id) == 1..Len(scheduled_batches[id].deserialized_packets)

\* position i1 of batch b1 was dispatched before position i2 of batch b2
DispatchedBefore(b1, i1, b2, i2) == b1 < b2 \/ (b1 = b2 /\ i1 < i2)

AsWritten_NothingDispatched == scheduled_batches = EmptyMap

(***************************************************************************)
(* The scheduler with line 578 either as written or asserting absence.     *)
(***************************************************************************)
SpecEitherAssertion == (Init \/ InitAssertingAbsence) /\ [][Next]_vars

\* h is in the reads set of every account it reads and in the writes set of
\* every account it writes
InAccountQueues(q, h) ==
    /\ \A a \in AccountsOf(readonly(h)) :
          a \in DOMAIN q.account_queues /\ h \in q.account_queues[a].reads
    /\ \A a \in AccountsOf(writable(h)) :
          a \in DOMAIN q.account_queues /\ h \in q.account_queues[a].writes

\* C22: insert_transaction of a hash that is not in tracking_map completes
\* without aborting and leaves the transaction in tracking_map, in the
\* reads/writes set of each of its accounts and in the pending heap unless
\* the heap was full; it aborts only when the hash is already tracked
C22_InsertUntrackedCompletes ==
    ~transaction_queue.panicked =>
        \A h \in Hash, tie \in TieBreak :
            LET q == insert_transaction(transaction_queue, h, line_578, tie)
            IN IF h \notin DOMAIN transaction_queue.tracking_map
               THEN /\ ~q.panicked
                    /\ h \in q.pending_transactions
                          \/ remaining_capacity(transaction_queue) = 0
                    /\ h \in q.pending_transactions
                          => h \in DOMAIN q.tracking_map /\ InAccountQueues(q, h)
               ELSE q.panicked

\* the hashes of the batches in current_batches
InFlight == UNION {PacketsOf(id) : id \in DOMAIN current_batches}

\* the hashes parked in blocked_transactions
Parked(q) ==
    UNION {{q.blocked_transactions[b][i] : i \in 1..Len(q.blocked_transactions[b])} :
              b \in DOMAIN q.blocked_transactions}

InsertThenComplete(h, tie) ==
    complete_or_retry(insert_transaction(TransactionQueue_with_capacity, h, line_578, tie),
                      h, FALSE, tie)

\* C24: starting from an empty TransactionQueue, insert_transaction(tx)
\* followed by complete_or_retry(tx, retry = false) is a round trip: it does
\* not abort, and afterwards the pending heap, account_queues and
\* tracking_map are empty
C24_InsertCompleteRoundTrip ==
    \A h \in Hash, tie \in TieBreak :
        LET q == InsertThenComplete(h, tie)
        IN /\ ~q.panicked
           /\ q.pending_transactions = {}
           /\ q.account_queues = EmptyMap
           /\ q.tracking_map = EmptyMap

\* the same with the transaction dispatched by get_consume_batch in between
InsertDispatchComplete(h, tie) ==
    complete_or_retry(
        get_consume_batch(insert_transaction(TransactionQueue_with_capacity, h,
                                             line_578, tie), tie).q,
        h, FALSE, tie)

\* With line 578 asserting absence, insert_transaction, get_consume_batch and
\* complete_or_retry(retry = false) restore the empty queue.
AssertingAbsence_DispatchedRoundTrip ==
    line_578 = "asserts_absence" =>
        \A h \in Hash, tie \in TieBreak :
            InsertDispatchComplete(h, tie) = TransactionQueue_with_capacity

\* the batch ids a ProcessedPacketBatch can carry
BatchId == 1..(MaxBatches + 1)

\* the reports with id: retryable_packets is as long as the dispatched batch
ReportsOf(id) ==
    IF id \in DOMAIN scheduled_batches
    THEN {[id |-> id, retryable_packets |-> f] :
             f \in [1..Len(scheduled_batches[id].deserialized_packets) -> BOOLEAN]}
    ELSE {[id |-> id, retryable_packets |-> << >>]}

\* the ids of the reports waiting in the completion channel
Reported ==
    {processed_packet_batch_channel[i].id : i \in 1..Len(processed_packet_batch_channel)}

\* the batches whose completion complete_batch has processed
Processed ==
    {id \in DOMAIN scheduled_batches :
        /\ scheduled_batches[id].finished
        /\ id \notin Reported
        /\ \A w \in Worker : workers[w] # id}

\* current_batches holds the batches created whose completion is not yet
\* processed, and none of them under decision Hold
CurrentBatchesAreUnprocessed ==
    (Running /\ ~transaction_queue.panicked) =>
        /\ DOMAIN current_batches = DOMAIN scheduled_batches \ Processed
        /\ \A id \in DOMAIN current_batches :
              /\ current_batches[id] # "Hold"
              /\ current_batches[id] = scheduled_batches[id].processing_instruction

BatchSent == Len(scheduled_packet_batch_channel') > Len(scheduled_packet_batch_channel)

\* the id of the batch a BatchSent step sends
SentId == scheduled_packet_batch_channel'[Len(scheduled_packet_batch_channel')]

SchedulerStep ==
    \/ ReceivePackets
    \/ ReceivePacketsTimeout
    \/ ReceivePacketsDisconnected
    \/ ReceiveProcessedBatch
    \/ ReceiveProcessedBatchNone
    \/ GetNextTransactionBatch

\* the thread moves to another point of run or leaves the loop
SchedulerAdvances ==
    /\ Running
    /\ pc' \in {"receive", "completion", "schedule", "exited", "panicked"}
    /\ pc' # pc

\* The steps of the scheduler thread are the steps that move pc; one of them
\* is possible at each point of the loop, so that weak fairness of
\* SchedulerAdvances is weak fairness of SchedulerStep.
SchedulerStepMovesPc == [][SchedulerStep <=> SchedulerAdvances]_vars

FairSpec == (Init \/ InitAssertingAbsence) /\ [][Next]_vars /\ WF_pc(SchedulerAdvances)

\* the ingress sender is dropped, or the handles that hold the egress
\* receiver and the completion sender are
Disconnected == ~ingress_connected \/ ~handles_alive

\* a batch is created and its send fails
SendFails == pc = "schedule" /\ ~handles_alive /\ batch_id_generator' # batch_id_generator

BeforePendingInsert(q, h) ==
    insert_transaction_into_account_queues(
        [q EXCEPT !.tracking_map = MapInsert(@, h, [forwarded |-> FALSE])], h)

\* h is in no reads or writes set of q
InNoAccountQueue(q, h) ==
    \A a \in DOMAIN q.account_queues :
        h \notin q.account_queues[a].reads /\ h \notin q.account_queues[a].writes

\* the scheduled locks of every account of q1 are those of q2, an account
\* without an entry having none
SameScheduledLocks(q1, q2) ==
    \A a \in DOMAIN q1.account_queues \cup DOMAIN q2.account_queues :
        (IF a \in DOMAIN q1.account_queues THEN q1.account_queues[a].scheduled_lock
         ELSE NewAccountLock)
        = (IF a \in DOMAIN q2.account_queues THEN q2.account_queues[a].scheduled_lock
           ELSE NewAccountLock)

LockCount(q, a, is_write) ==
    IF a \notin DOMAIN q.account_queues THEN 0
    ELSE IF is_write THEN q.account_queues[a].scheduled_lock.write.count
    ELSE q.account_queues[a].scheduled_lock.read.count

\* the locks lock_for_transaction takes for h on account a
LocksTaken(h, a, is_write) ==
    IF a \in AccountsOf(IF is_write THEN writable(h) ELSE readonly(h)) THEN 1 ELSE 0

\* the transactions parked under h
ParkedUnder(q, h) ==
    IF h \in DOMAIN q.blocked_transactions
    THEN {q.blocked_transactions[h][i] : i \in 1..Len(q.blocked_transactions[h])}
    ELSE {}

\* the transactions in flight in Consume batches
InFlightConsumeTransactions == UNION {PacketsOf(id) : id \in InFlightConsume}

ParkedAt(q, h) ==
    {<<b, i>> \in (DOMAIN q.blocked_transactions) \X (1..MaxArrivals) :
        i <= Len(q.blocked_transactions[b]) /\ q.blocked_transactions[b][i] = h}

\* the hashes of a batch
BatchOf(batch) == {batch[i] : i \in 1..Len(batch)}

\* the locks lock_batch takes on account a for the transactions of a batch
RECURSIVE LocksTakenByBatch(_, _, _)
LocksTakenByBatch(batch, a, is_write) ==
    IF batch = << >> THEN 0
    ELSE LocksTaken(Head(batch), a, is_write) + LocksTakenByBatch(Tail(batch), a, is_write)

\* a transaction in flight in a Consume batch conflicts with h
ConflictsInFlight(h) == \E t \in InFlightConsumeTransactions : Conflict(t, h)

\* the transactions get_consume_batch took out of the heap of q, answering r
Popped(q, r) == q.pending_transactions \ r.q.pending_transactions

\* the places at which h is parked in r.q and was not in q
NewlyParkedAt(q, r, h) == ParkedAt(r.q, h) \ ParkedAt(q, h)

\* get_consume_batch, answering r on q, has not aborted and has emptied the
\* heap unless the batch is full; every transaction popped is either in the
\* batch or parked once more, in one list; the batch is in non-increasing
\* priority order without repetition; the scheduled locks have changed by
\* the locks of the transactions of the batch
ConsumeBatchPartition(q, r) ==
    /\ ~r.q.panicked
    /\ r.q.pending_transactions = {} \/ Len(r.batch) = MAX_BATCH_SIZE
    /\ r.q.pending_transactions \subseteq q.pending_transactions
    /\ BatchOf(r.batch) \subseteq Popped(q, r)
    /\ \A h \in Popped(q, r) :
          IF h \in BatchOf(r.batch) THEN NewlyParkedAt(q, r, h) = {}
          ELSE Cardinality(NewlyParkedAt(q, r, h)) = 1
    /\ \A h \in Hash \ Popped(q, r) : ParkedAt(r.q, h) = ParkedAt(q, h)
    /\ \A i, j \in 1..Len(r.batch) :
          i < j => /\ priority(r.batch[i]) >= priority(r.batch[j])
                   /\ r.batch[i] # r.batch[j]
    /\ \A a \in Pubkey, is_write \in BOOLEAN :
          LockCount(r.q, a, is_write)
             = LockCount(q, a, is_write) + LocksTakenByBatch(r.batch, a, is_write)

\* The partition alone, without the conditions on the transactions in flight.
ConsumeBatchPartitionsPopped ==
    ~transaction_queue.panicked =>
        \A tie \in TieBreak :
            ConsumeBatchPartition(transaction_queue, get_consume_batch(transaction_queue, tie))

Candidates(q) ==
    {h \in TableHash :
        AccountsOf(readonly(h)) \cup AccountsOf(writable(h)) \subseteq DOMAIN q.account_queues}

\* what the accounts of h contribute: a written account its lowest-priority
\* scheduled reader and writer, a read account its lowest-priority scheduled
\* writer
Contributions(q, h) ==
    ({q.account_queues[a].scheduled_lock.read.lowest_priority_transaction :
          a \in AccountsOf(writable(h))}
     \cup {q.account_queues[a].scheduled_lock.write.lowest_priority_transaction :
          a \in AccountsOf(writable(h)) \cup AccountsOf(readonly(h))})
    \ {NoTx}

LockInner(q, a, is_write) ==
    IF is_write THEN q.account_queues[a].scheduled_lock.write
    ELSE q.account_queues[a].scheduled_lock.read

\* the transactions out with a worker that hold the lock of the kind on a
Holders(q, a, is_write) ==
    {t \in Dispatched(q) : a \in AccountsOf(IF is_write THEN writable(t) ELSE readonly(t))}

ForwardAndHoldRemovesNothing ==
    (Running /\ ~transaction_queue.panicked) =>
        \A id \in DOMAIN current_batches : \A batch \in ReportsOf(id), tie \in TieBreak :
            current_batches[id] = "ForwardAndHold" =>
                LET r == complete_batch(transaction_queue, current_batches,
                                        scheduled_batches, batch, tie)
                    packets == scheduled_batches[id].deserialized_packets
                IN /\ ~r.q.panicked
                   /\ \A i \in 1..Len(packets) :
                         /\ packets[i] \in DOMAIN r.q.tracking_map
                         /\ InAccountQueues(r.q, packets[i])
                         /\ ~batch.retryable_packets[i]
                               => r.q.tracking_map[packets[i]].forwarded

\* the reports with id whose retry flags are all false
FinalReportsOf(id) ==
    {batch \in ReportsOf(id) :
        \A i \in 1..Len(batch.retryable_packets) : ~batch.retryable_packets[i]}

IterationStep ==
    /\ pc' # pc =>
          \/ pc = "receive" /\ pc' \in {"completion", "exited", "panicked"}
          \/ pc = "completion" /\ pc' \in {"schedule", "exited", "panicked"}
          \/ pc = "schedule" /\ pc' \in {"receive", "exited", "panicked"}
    /\ arrivals' # arrivals => pc = "receive" /\ pc' \in {"completion", "panicked"}
    /\ Len(processed_packet_batch_channel') < Len(processed_packet_batch_channel) =>
          /\ pc = "completion" /\ pc' \in {"schedule", "panicked"}
          /\ processed_packet_batch_channel' = Tail(processed_packet_batch_channel)
    /\ batch_id_generator' # batch_id_generator =>
          pc = "schedule" /\ pc' \in {"receive", "exited"}
    /\ transaction_queue' # transaction_queue => pc' # pc

\* the queue after the ingress of packets and the completion of the report
\* at the head of the channel, and the Consume dispatch that follows
IterationOf(packets, tie) ==
    LET q1 == InsertNewPackets(transaction_queue, packets, line_578, tie)
        r == complete_batch(q1, current_batches, scheduled_batches,
                            Head(processed_packet_batch_channel), tie)
        g == get_next_transaction_batch(r.q, held_packets, forward_filter,
                                        "Consume", TRUE, tie)
    IN [ingested |-> q1, completed |-> r.q, dispatch |-> g]

IterationStart ==
    /\ pc = "receive" /\ ingress_connected
    /\ processed_packet_batch_channel # << >>
    /\ ~transaction_queue.panicked

\* the transactions ingested and those unblocked in an iteration are in the
\* pending heap when its batch is assembled, and each of them is put in the
\* batch or parked
IterationComposes ==
    IterationStart =>
        \A packets \in PacketBatches, tie \in TieBreak :
            LET it == IterationOf(packets, tie)
                ingested == DOMAIN it.ingested.tracking_map \ DOMAIN transaction_queue.tracking_map
                unblocked == Parked(transaction_queue) \ Parked(it.completed)
            IN ~it.dispatch.q.panicked =>
                  \A h \in (ingested \cup unblocked) \cap DOMAIN it.completed.tracking_map :
                     /\ h \in it.completed.pending_transactions
                     /\ \/ \E i \in 1..Len(it.dispatch.batch) : it.dispatch.batch[i] = h
                        \/ h \in Parked(it.dispatch.q)

PlacesOf(h) ==
    (IF h \in transaction_queue.pending_transactions THEN 1 ELSE 0)
    + Cardinality(ParkedAt(transaction_queue, h))
    + Cardinality({i \in 1..Len(held_packets) : held_packets[i] = h})
    + Cardinality({id \in DOMAIN current_batches : h \in PacketsOf(id)})

TakenIds(c) == DOMAIN c.id_to_packet \ HeapIds(c)

\* C40: retry_transaction of an id taken from the heap leaves no orphan
\* record: accepted, the id is in the heap and in both maps and the evicted
\* id is in neither map; rejected, the id is in neither map; and every id in
\* the transaction map is in the packet map
C40_RetryLeavesNoOrphan ==
    ~container.panicked =>
        \A id \in TakenIds(container) :
            LET pushed == push_id_into_queue(
                              container,
                              TransactionPriorityId_new(container.id_to_packet[id], id))
                c == retry_transaction(container, id, MaxAgeSlot)
            IN /\ ~c.panicked
               /\ IF pushed.ret
                  THEN /\ id \in HeapIds(c)
                       /\ id \in DOMAIN c.id_to_packet
                       /\ id \in DOMAIN c.id_to_transaction_ttl
                       /\ \A e \in HeapIds(container) \ HeapIds(c) :
                             e \notin DOMAIN c.id_to_packet \cup DOMAIN c.id_to_transaction_ttl
                  ELSE /\ id \notin DOMAIN c.id_to_packet
                       /\ id \notin DOMAIN c.id_to_transaction_ttl
               /\ DOMAIN container.id_to_transaction_ttl \subseteq DOMAIN container.id_to_packet
                     => DOMAIN c.id_to_transaction_ttl \subseteq DOMAIN c.id_to_packet

\* the parts of C40 that hold: the accepted retry, and the key sets
RetryAcceptedLeavesNoOrphan ==
    ~container.panicked =>
        \A id \in TakenIds(container) :
            LET pushed == push_id_into_queue(
                              container,
                              TransactionPriorityId_new(container.id_to_packet[id], id))
                c == retry_transaction(container, id, MaxAgeSlot)
            IN /\ ~c.panicked
               /\ pushed.ret =>
                     /\ id \in HeapIds(c)
                     /\ id \in DOMAIN c.id_to_packet
                     /\ id \in DOMAIN c.id_to_transaction_ttl
                     /\ \A e \in HeapIds(container) \ HeapIds(c) :
                           e \notin DOMAIN c.id_to_packet \cup DOMAIN c.id_to_transaction_ttl
               /\ ~pushed.ret => c = container
               /\ DOMAIN c.id_to_transaction_ttl \subseteq DOMAIN c.id_to_packet

=============================================================================
